---- MODULE Spec2Model ----
(***************************************************************************)
(* Model of the LAN CCTV signaling server: server/websocket.js (session    *)
(* orchestration), server/mediasoup.js (media resource registries) and     *)
(* server/recorder.js (recording lifecycle).                               *)
(*                                                                         *)
(* Node.js runs one event loop: a handler runs without interruption up to  *)
(* its next `await` on the media engine or on a timer, where it is         *)
(* suspended and any other event (message, close, timer, engine reply) may *)
(* run.  Every action below is one such uninterrupted stretch.             *)
(***************************************************************************)
EXTENDS Integers, Sequences, FiniteSets, TLC

\* ---- bounds of the model ------------------------------------------------
MaxClients == 2        \* connections accepted during a run
MaxMsgs == 4           \* inbound frames handled during a run
MaxRegisters == 3      \* 'register' frames among them
MaxStops == 1          \* 'stop-streaming' frames among them
MaxTransports == 1     \* 'create-transport' frames among them
MaxProducers == 1      \* 'produce' frames among them
MaxConsumers == 1      \* 'consume' frames among them
MaxDirectStarts == 1   \* direct calls of recorder.startRecording (SpecRecorder)
MaxPanZooms == 2       \* 'pan-zoom' frames among them (SpecControl)
MaxMalformed == 1      \* frames that are not a JSON object with a payload (SpecErrors)
MaxConnectTransports == 1  \* 'connect-transport' frames among them (SpecErrors)
MaxResumes == 1        \* 'resume-consumer' frames among them (SpecErrors)
MaxSockets == 3        \* WebSockets the browser client opens during a run (SpecClient)
MaxCalls == 4          \* requests the browser client starts during a run (SpecClient)
MaxUpgrades == 2       \* upgrade requests that arrive during a run (SpecAuth)
MaxCredLen == 4        \* octets in the credentials of an Authorization header (SpecAuth)

\* ---- program constants --------------------------------------------------
FirstRtpPort == 20000
LastRtpPort == 30000

Kinds == {"video", "audio"}
\* the payloads of 'register': a streamer that leaves the name field empty (the server
\* then makes up a name) and the master dashboard with its fixed name
RegisterPayloads == {[role |-> "streamer", deviceName |-> ""],
                     [role |-> "master", deviceName |-> "Master Dashboard"]}
NoRole == "null"

VARIABLES
  \* server/websocket.js
  clients,        \* Map clientId -> client object; here the set of its keys
  client,         \* the client objects (kept by handler closures after the key is deleted)
  streamers,      \* Map clientId -> {deviceName, producers, transports}, in insertion order
  masters,        \* Set of clientIds
  nextClient,     \* stands for uuidv4(): identities are handed out in sequence
  tasks,          \* handleMessage invocations suspended at an await
  msgSeq,         \* per identity, number of frames that have arrived
  msgCount,       \* per message type, frames handled so far
  outbox,         \* per identity, the frames written to its socket
  \* server/mediasoup.js
  transports,     \* Map transportId -> clientId
  producers,      \* Map producerId -> {clientId, deviceName, kind}
  consumers,      \* Map consumerId -> {clientId, producerId}
  \* the mediasoup library objects behind the registries
  engine,         \* [t: transports created, p: producerId -> transportId, c: consumerId -> {t, p},
                  \*  closedT, closedP, closedC, notes: consumers with a 'producerclose' under way]
  \* server/recorder.js
  ffmpegAvailable,
  nextRtpPort,
  recordings,     \* Map producerId -> capture index
  captures,       \* the capture pipelines startRecording has built (transport, consumer, encoder)
  timers,         \* setTimeout callbacks of stopRecording that have not fired
  \* observations
  stopSeqs,       \* number of stop sequences stopRecording has run
  lastDisconnect, \* what the last handleDisconnect found and did
  audience,       \* producerId -> who produced it, and the viewers registered and connected then
  directStarts,   \* direct calls of startRecording made so far
  regOrder,       \* the connected identities whose role is 'streamer', in the order they got it
  lastPanZoom,    \* what the last 'pan-zoom' handler found
  lastConsume,    \* what the last 'consume' handler was asked for
  \* public/js/common.js, in the browser
  cctv,           \* the CCTVClient object
  wire,           \* requests the server has got on the open socket and not answered
  \* observation of the connection handler of server/websocket.js
  lastUpgrade     \* the upgrade requests seen so far and the Authorization header of the last

vars == <<clients, client, streamers, masters, nextClient, tasks, msgSeq, msgCount, outbox,
          transports, producers, consumers, engine,
          ffmpegAvailable, nextRtpPort, recordings, captures, timers,
          stopSeqs, lastDisconnect, audience, directStarts,
          regOrder, lastPanZoom, lastConsume, cctv, wire, lastUpgrade>>

wsVars == <<clients, client, streamers, masters, nextClient>>
msVars == <<transports, producers, consumers, engine>>
recVars == <<nextRtpPort, recordings, captures, timers, stopSeqs>>
envVars == <<ffmpegAvailable>>
browserVars == <<cctv, wire>>
extVars == <<regOrder, lastPanZoom, lastConsume, cctv, wire, lastUpgrade>>
serverVars == <<clients, client, streamers, masters, nextClient, tasks, msgSeq, msgCount, outbox,
                transports, producers, consumers, engine,
                ffmpegAvailable, nextRtpPort, recordings, captures, timers,
                stopSeqs, lastDisconnect, audience, directStarts, regOrder, lastPanZoom, lastConsume,
                lastUpgrade>>

Ids == 1..MaxClients

\* req.headers.authorization of an upgrade request: absent, or a scheme and the octets its
\* second word decodes to (base64 then ASCII; the model's credentials are ASCII letters and
\* colons, on which both are one-to-one)
NoHeader == [scheme |-> "none", credentials |-> <<>>]
Chars == {"u", "p", ":"}
Credentials == UNION {[1..n -> Chars] : n \in 0..MaxCredLen}
Headers == {NoHeader, [scheme |-> "Bearer", credentials |-> <<>>]}
             \cup {[scheme |-> "Basic", credentials |-> s] : s \in Credentials}

\* config.server.auth of a deployment that turns authentication on (config.js as it is in
\* the repository has no such section, so there the block is skipped)
AuthOn == [enabled |-> TRUE, username |-> <<"u">>, password |-> <<"p">>]

\* String.prototype.split(sep): the pieces between the separators, all of them
RECURSIVE Split(_, _)
Split(s, sep) ==
  IF \A i \in 1..Len(s) : s[i] # sep THEN <<s>>
  ELSE LET i == CHOOSE j \in 1..Len(s) : s[j] = sep /\ \A m \in 1..(j - 1) : s[m] # sep
       IN <<SubSeq(s, 1, i - 1)>> \o Split(SubSeq(s, i + 1, Len(s)), sep)

\* the value of a destructured element that is not there
Undefined == <<"undefined">>

\* the authentication block: the header must start with 'Basic '; its second word is
\* decoded; const [username, password] = credentials.split(':') takes the first two
\* pieces; both must equal the configured ones
Authorized(cfg, h) ==
  IF ~cfg.enabled THEN TRUE
  ELSE IF h.scheme # "Basic" THEN FALSE
  ELSE LET parts == Split(h.credentials, ":")
           username == parts[1]
           password == IF Len(parts) >= 2 THEN parts[2] ELSE Undefined
       IN username = cfg.username /\ password = cfg.password

MsgTypes == {"register", "stop-streaming", "create-transport", "produce", "consume",
             "pan-zoom", "malformed", "connect-transport", "resume-consumer"}
MaxOfType == [type \in MsgTypes |->
               CASE type = "register" -> MaxRegisters
                 [] type = "stop-streaming" -> MaxStops
                 [] type = "create-transport" -> MaxTransports
                 [] type = "produce" -> MaxProducers
                 [] type = "consume" -> MaxConsumers
                 [] type = "pan-zoom" -> MaxPanZooms
                 [] type = "malformed" -> MaxMalformed
                 [] type = "connect-transport" -> MaxConnectTransports
                 [] type = "resume-consumer" -> MaxResumes]

MsgTotal(n) == n["register"] + n["stop-streaming"] + n["create-transport"] + n["produce"] + n["consume"]
               + n["pan-zoom"] + n["malformed"] + n["connect-transport"] + n["resume-consumer"]

\* ---- maps ---------------------------------------------------------------
EmptyMap == [x \in {} |-> 0]
MapSet(f, k, v) == [x \in (DOMAIN f) \cup {k} |-> IF x = k THEN v ELSE f[x]]
MapDel(f, S) == [x \in (DOMAIN f) \ S |-> f[x]]

Without(q, x) == SelectSeq(q, LAMBDA y : y # x)

RECURSIVE SetToSeq(_)
SetToSeq(S) == IF S = {} THEN <<>>
               ELSE LET m == CHOOSE x \in S : \A y \in S : x <= y
                    IN <<m>> \o SetToSeq(S \ {m})

\* ---- frames -------------------------------------------------------------
\* re: arrival number of the inbound frame this one answers (0: not a reply)
\* streamers: payload.streamers of 'streamer-list'; message: payload.message of 'error';
\* zoom, panX, panY: the payload of 'pan-zoom-command'
Frame(type, re, cid, name, pid, kind) ==
  [type |-> type, re |-> re, clientId |-> cid, deviceName |-> name, producerId |-> pid, kind |-> kind,
   streamers |-> <<>>, message |-> "", zoom |-> 0, panX |-> 0, panY |-> 0, rtpCapabilities |-> ""]

\* mediasoup.getRouterRtpCapabilities(): the codecs the router was created with
RouterRtpCapabilities == "router.rtpCapabilities"

DefaultName(c) == "Device-" \o ToString(c)

WsOpen(cl, c) == c \in cl

Send(ob, cl, c, f) == IF WsOpen(cl, c) THEN [ob EXCEPT ![c] = Append(@, f)] ELSE ob

\* broadcastToMasters with a fault: it reaches nobody
BroadcastToMasters_None(ob, cl, ms, f) == ob

BroadcastToMasters(ob, cl, ms, f) ==
  [c \in DOMAIN ob |-> IF c \in ms /\ WsOpen(cl, c) THEN Append(ob[c], f) ELSE ob[c]]

\* ---- streamers map (insertion ordered) ----------------------------------
StreamerIds(ss) == {ss[i].id : i \in 1..Len(ss)}
StreamerIdx(ss, c) == CHOOSE i \in 1..Len(ss) : ss[i].id = c
StreamersGet(ss, c) == ss[StreamerIdx(ss, c)]
StreamersSet(ss, c, rec) ==
  IF c \in StreamerIds(ss) THEN [ss EXCEPT ![StreamerIdx(ss, c)] = rec] ELSE Append(ss, rec)
\* with a fault: streamers.delete is forgotten
StreamersDelete_Keeps(ss, c) == ss

StreamersDelete(ss, c) == SelectSeq(ss, LAMBDA r : r.id # c)

\* ---- media engine (library) ---------------------------------------------
MS == [transports |-> transports, producers |-> producers, consumers |-> consumers, engine |-> engine]

LiveConsumersOf(e, P) == {k \in DOMAIN e.c : k \notin e.closedC /\ e.c[k].p \in P}

\* producer.close() followed by producers.delete(): the producer is gone; consumers of it
\* are told later ('producerclose')
CloseProducers(m, P) ==
  LET e == m.engine
      live == P \ e.closedP
  IN [m EXCEPT !.engine = [e EXCEPT !.closedP = @ \cup live,
                                     !.notes = @ \cup LiveConsumersOf(e, live)],
               !.producers = MapDel(@, P)]

\* consumer.close() followed by consumers.delete()
CloseConsumers(m, C) ==
  LET e == m.engine
      live == C \ e.closedC
  IN [m EXCEPT !.engine = [e EXCEPT !.closedC = @ \cup live, !.notes = @ \ live],
               !.consumers = MapDel(@, C)]

\* transport.close(): its producers and consumers get 'transportclose' at once
\* (handlers of createProducer and createConsumer delete them from the registries);
\* consumers elsewhere of those producers are told later ('producerclose').
\* emits: whether the library build emits 'close' on the transport itself, which is what
\* the handler that deletes it from `transports` listens to.
CloseTransports(m, T, emits) ==
  LET e == m.engine
      live == T \ e.closedT
      ps == {p \in DOMAIN e.p : p \notin e.closedP /\ e.p[p] \in live}
      cs == {k \in DOMAIN e.c : k \notin e.closedC /\ e.c[k].t \in live}
  IN [m EXCEPT !.engine = [e EXCEPT !.closedT = @ \cup live,
                                     !.closedP = @ \cup ps,
                                     !.closedC = @ \cup cs,
                                     !.notes = (@ \cup LiveConsumersOf(e, ps)) \ cs],
               !.producers = MapDel(@, ps),
               !.consumers = MapDel(@, cs),
               !.transports = IF emits THEN MapDel(@, live) ELSE @]

\* ---- server/mediasoup.js ------------------------------------------------
getProducersByClient(ps, c) == {p \in DOMAIN ps : ps[p].clientId = c}

\* the array getProducersByClient returns: {id, kind} in the order of the producers Map
\* (producer ids are handed out in increasing order)
ProducerList(ps, c) ==
  LET ids == SetToSeq(getProducersByClient(ps, c))
  IN [i \in 1..Len(ids) |-> [id |-> ids[i], kind |-> ps[ids[i]].kind]]

\* the snapshot 'register' (master) and 'get-streamers' build from the streamers Map
streamerList(ss, ps) ==
  [i \in 1..Len(ss) |->
     [clientId |-> ss[i].id, deviceName |-> ss[i].deviceName, producers |-> ProducerList(ps, ss[i].id)]]

\* cleanupClient with a fault: the transports are closed but transports.delete is forgotten
cleanupClient_KeepsTransports(m, c) ==
  LET P == {p \in DOMAIN m.producers : m.producers[p].clientId = c}
      m1 == CloseProducers(m, P)
      C == {k \in DOMAIN m1.consumers : m1.consumers[k].clientId = c}
      m2 == CloseConsumers(m1, C)
      T == {t \in DOMAIN m2.transports : m2.transports[t] = c}
  IN CloseTransports(m2, T, FALSE)

cleanupClient(m, c) ==
  LET P == {p \in DOMAIN m.producers : m.producers[p].clientId = c}
      m1 == CloseProducers(m, P)
      C == {k \in DOMAIN m1.consumers : m1.consumers[k].clientId = c}
      m2 == CloseConsumers(m1, C)
      T == {t \in DOMAIN m2.transports : m2.transports[t] = c}
  IN [CloseTransports(m2, T, FALSE) EXCEPT !.transports = MapDel(@, T)]

\* the objects cleanupClient calls close() on
cleanupCloses(m, c) ==
  [p |-> {p \in DOMAIN m.producers : m.producers[p].clientId = c},
   c |-> {k \in DOMAIN m.consumers : m.consumers[k].clientId = c},
   t |-> {t \in DOMAIN m.transports : m.transports[t] = c}]

\* ---- server/recorder.js -------------------------------------------------
\* whether the produce handler's call of startRecording gets past its guard.
\* With a fault: the guard on ffmpegAvailable is missing
Recorded_Unguarded(kind, avail) == kind = "video"

Recorded(kind, avail) == kind = "video" /\ avail

isRecordingEnabled == ffmpegAvailable
getActiveRecordings == SetToSeq(DOMAIN recordings)

\* GET /api/recordings.  dir: the recordings directory exists; fsOk: reading it works.
\* active: the producer ids the reply lists as being recorded (none when the reply has
\* no such field)
RecordingsReply(dir, fsOk) ==
  IF ~dir THEN [enabled |-> FALSE, active |-> <<>>]
  ELSE IF fsOk THEN [enabled |-> isRecordingEnabled, active |-> getActiveRecordings]
  ELSE [enabled |-> FALSE, active |-> <<>>]

getNextPort(n) == [port |-> n, next |-> IF n + 2 > LastRtpPort THEN FirstRtpPort ELSE n + 2]

\* stopRecording for each producer of P that has an entry in `recordings`
\* r = [recordings, captures, timers, stopSeqs]
REC == [recordings |-> recordings, captures |-> captures, timers |-> timers, stopSeqs |-> stopSeqs]

\* stopRecording with a fault: the entry stays in `recordings`
stopRecording_KeepsEntry(r, p) ==
  IF p \in DOMAIN r.recordings
  THEN LET i == r.recordings[p]
       IN [recordings |-> r.recordings,
           captures |-> [r.captures EXCEPT ![i].consumer = "closed",
                                           ![i].stopLog = Append(@, "consumer.close")],
           timers |-> r.timers \cup {[cap |-> i, phase |-> "flush"]},
           stopSeqs |-> r.stopSeqs + 1]
  ELSE r
\* stopLog of a capture: the calls its stop sequence has made, in the order made.
\* With a fault: the encoder is told to stop at once, not after the flush delay
stopRecording_NoFlushDelay(r, p) ==
  IF p \in DOMAIN r.recordings
  THEN LET i == r.recordings[p]
       IN [recordings |-> MapDel(r.recordings, {p}),
           captures |-> [r.captures EXCEPT ![i].consumer = "closed",
                                           ![i].ffmpeg = IF @ = "running" THEN "quitting" ELSE @,
                                           ![i].stopLog = @ \o <<"consumer.close", "ffmpeg.stop">>],
           timers |-> r.timers \cup {[cap |-> i, phase |-> "flush"]},
           stopSeqs |-> r.stopSeqs + 1]
  ELSE r

stopRecording(r, p) ==
  IF p \in DOMAIN r.recordings
  THEN LET i == r.recordings[p]
       IN [recordings |-> MapDel(r.recordings, {p}),
           captures |-> [r.captures EXCEPT ![i].consumer = "closed",
                                           ![i].stopLog = Append(@, "consumer.close")],
           timers |-> r.timers \cup {[cap |-> i, phase |-> "flush"]},
           stopSeqs |-> r.stopSeqs + 1]
  ELSE r

RECURSIVE stopRecordingAll(_, _)
stopRecordingAll(r, ps) ==
  IF ps = <<>> THEN r ELSE stopRecordingAll(stopRecording(r, Head(ps)), Tail(ps))

\* ---- public/js/common.js: the CCTVClient constructor --------------------
\* app: the page that extends it; sockets, calls: what the run has used of its bounds;
\* promises, directionOf: the continuations made so far; timeouts: armed timers;
\* connectEmitted: transports whose 'connect' the library has emitted;
\* announced: what the page has asked for on this socket (consume) or transport (produce);
\* lib: whether the page got the mediasoup-client script (window.mediasoupClient);
\* ws: the socket this.ws refers to; sock: what became of each WebSocket made so far;
\* isConnected: the dashboard's flag; reconnects, retries: armed 3 s and 5 s timers;
\* registered: the sockets on which the server has answered 'register';
\* awaits: per call of createSendTransport / createRecvTransport that had to wait, the
\* promise it waits for; resolvedWith: the transport a creation promise was resolved with
NewCCTVClient ==
  [app |-> "none", connected |-> FALSE, sockets |-> 0, calls |-> 0,
   lib |-> FALSE, ws |-> 0, sock |-> <<>>, isConnected |-> FALSE, reconnects |-> 0, retries |-> 0,
   registered |-> {}, awaits |-> <<>>, resolvedWith |-> EmptyMap,
   sendTransport |-> 0, recvTransport |-> 0,
   sendTransportPromise |-> 0, recvTransportPromise |-> 0,
   pendingConsumes |-> EmptyMap, pendingTransports |-> <<>>,
   pendingTransportConnects |-> EmptyMap, pendingProduces |-> <<>>,
   promises |-> <<>>, directionOf |-> <<>>, timeouts |-> {},
   connectEmitted |-> {}, announced |-> {}]

\* ---- initial state ------------------------------------------------------
Init ==
  /\ clients = {}
  /\ client = EmptyMap
  /\ streamers = <<>>
  /\ masters = {}
  /\ nextClient = 1
  /\ tasks = {}
  /\ msgSeq = [c \in Ids |-> 0]
  /\ msgCount = [type \in MsgTypes |-> 0]
  /\ outbox = [c \in Ids |-> <<>>]
  /\ transports = EmptyMap
  /\ producers = EmptyMap
  /\ consumers = EmptyMap
  /\ engine = [t |-> {}, p |-> EmptyMap, c |-> EmptyMap,
               closedT |-> {}, closedP |-> {}, closedC |-> {}, notes |-> {}]
  /\ ffmpegAvailable \in BOOLEAN
  /\ nextRtpPort = FirstRtpPort
  /\ recordings = EmptyMap
  /\ captures = <<>>
  /\ timers = {}
  /\ stopSeqs = 0
  /\ lastDisconnect = [id |-> 0, streamer |-> FALSE, producers |-> 0, video |-> 0, stops |-> 0]
  /\ audience = EmptyMap
  /\ directStarts = 0
  /\ regOrder = <<>>
  /\ lastPanZoom = [from |-> 0, target |-> 0, open |-> FALSE,
                    payload |-> [zoom |-> 0, panX |-> 0, panY |-> 0]]
  /\ lastConsume = [from |-> 0, transportId |-> 0, producerId |-> 0, owner |-> 0, ownerGone |-> FALSE]
  /\ cctv = NewCCTVClient
  /\ wire = {}
  /\ lastUpgrade = [n |-> 0, header |-> NoHeader]

\* ---- wss.on('connection') -----------------------------------------------
\* the 'welcome' frame: the identity and the media capabilities of the router
Welcome(c) == [Frame("welcome", 0, c, "", 0, "") EXCEPT !.rtpCapabilities = RouterRtpCapabilities]

\* Accept with a fault: the connection is registered and nothing is sent
Accept_NoWelcome ==
  /\ nextClient <= MaxClients
  /\ clients' = clients \cup {nextClient}
  /\ client' = MapSet(client, nextClient, [role |-> NoRole, deviceName |-> "null"])
  /\ nextClient' = nextClient + 1
  /\ UNCHANGED outbox
  /\ UNCHANGED <<streamers, masters, tasks, msgSeq, msgCount>>
  /\ UNCHANGED <<msVars, recVars, envVars, regOrder, lastPanZoom, lastConsume, browserVars>>
  /\ UNCHANGED <<lastDisconnect, audience, directStarts>>
\* the connection handler past the authentication block: uuidv4(), clients.set, send 'welcome';
\* the 'message' and 'close' listeners it installs are the actions below
Accept ==
  /\ nextClient <= MaxClients
  /\ clients' = clients \cup {nextClient}
  /\ client' = MapSet(client, nextClient, [role |-> NoRole, deviceName |-> "null"])
  /\ nextClient' = nextClient + 1
  /\ outbox' = Send(outbox, clients', nextClient, Welcome(nextClient))
  /\ UNCHANGED <<streamers, masters, tasks, msgSeq, msgCount>>
  /\ UNCHANGED <<msVars, recVars, envVars, regOrder, lastPanZoom, lastConsume, browserVars>>
  /\ UNCHANGED <<lastDisconnect, audience, directStarts>>

\* a connection arrives while config.server.auth is absent, as in config.js: nothing is checked
Connect ==
  /\ Accept
  /\ UNCHANGED lastUpgrade

\* a connection arrives while authentication is on: ws.close(1008) and return unless the
\* header passes, else as above
Connection(h) ==
  /\ lastUpgrade.n < MaxUpgrades
  /\ lastUpgrade' = [n |-> lastUpgrade.n + 1, header |-> h]
  /\ IF Authorized(AuthOn, h)
     THEN Accept
     ELSE /\ UNCHANGED <<clients, client, streamers, masters, nextClient, tasks, msgSeq, msgCount, outbox>>
          /\ UNCHANGED <<msVars, recVars, envVars, regOrder, lastPanZoom, lastConsume, browserVars>>
          /\ UNCHANGED <<lastDisconnect, audience, directStarts>>

\* an inbound frame of identity c arrives: ws.on('message')
Arrive(c, type) ==
  /\ c \in clients
  /\ MsgTotal(msgCount) < MaxMsgs
  /\ msgCount[type] < MaxOfType[type]
  /\ msgCount' = [msgCount EXCEPT ![type] = @ + 1]
  /\ msgSeq' = [msgSeq EXCEPT ![c] = @ + 1]

\* ---- handleMessage case 'register' --------------------------------------
Register(c, role, name) ==
  /\ Arrive(c, "register")
  /\ LET dn == IF name = "" THEN DefaultName(c) ELSE name
         re == msgSeq'[c]
         ob1 == IF role = "streamer"
                THEN BroadcastToMasters(outbox, clients, masters, Frame("streamer-joined", 0, c, dn, 0, ""))
                ELSE IF role = "master"
                THEN Send(outbox, clients, c,
                       [Frame("streamer-list", re, 0, "", 0, "")
                          EXCEPT !.streamers = streamerList(streamers, producers)])
                ELSE outbox
     IN /\ client' = [client EXCEPT ![c] = [role |-> role, deviceName |-> dn]]
        /\ streamers' = IF role = "streamer"
                        THEN StreamersSet(streamers, c,
                               [id |-> c, deviceName |-> dn, producers |-> <<>>, transports |-> <<>>])
                        ELSE streamers
        /\ masters' = IF role = "master" THEN masters \cup {c} ELSE masters
        /\ outbox' = Send(ob1, clients, c, Frame("registered", re, 0, dn, 0, role))
        /\ regOrder' = IF role # "streamer" THEN Without(regOrder, c)
                       ELSE IF client[c].role = "streamer" THEN regOrder
                       ELSE Append(Without(regOrder, c), c)
  /\ UNCHANGED <<clients, nextClient, tasks>>
  /\ UNCHANGED <<msVars, recVars, envVars, lastPanZoom, lastConsume, browserVars, lastUpgrade, lastDisconnect, audience, directStarts>>

\* ---- handleMessage case 'stop-streaming' --------------------------------
StopStreaming(c) ==
  /\ Arrive(c, "stop-streaming")
  /\ LET r == stopRecordingAll(REC, SetToSeq(getProducersByClient(producers, c)))
         m == cleanupClient(MS, c)
         ob1 == IF c \in StreamerIds(streamers)
                THEN BroadcastToMasters(outbox, clients, masters,
                       Frame("streamer-left", 0, c, client[c].deviceName, 0, ""))
                ELSE outbox
     IN /\ recordings' = r.recordings
        /\ captures' = r.captures
        /\ timers' = r.timers
        /\ stopSeqs' = r.stopSeqs
        /\ transports' = m.transports
        /\ producers' = m.producers
        /\ consumers' = m.consumers
        /\ engine' = m.engine
        /\ streamers' = StreamersDelete(streamers, c)
        /\ client' = [client EXCEPT ![c].role = NoRole]
        /\ outbox' = Send(ob1, clients, c, Frame("streaming-stopped", msgSeq'[c], 0, "", 0, ""))
        /\ regOrder' = Without(regOrder, c)
  /\ UNCHANGED <<clients, masters, nextClient, tasks, nextRtpPort>>
  /\ UNCHANGED <<envVars, lastPanZoom, lastConsume, browserVars, lastUpgrade, lastDisconnect, audience, directStarts>>

\* ---- handleDisconnect (ws.on('close')) ----------------------------------
\* the state handleDisconnect reads and writes
SRV == [clients |-> clients, client |-> client, streamers |-> streamers, masters |-> masters,
        outbox |-> outbox, ms |-> MS, rec |-> REC]

\* handleDisconnect as a function of that state: nothing happens unless clients.get finds the
\* identity; every call it makes is total (Map and Set deletes, close() of engine objects,
\* stopRecording with its try blocks)
handleDisconnect(s, c) ==
  IF c \notin s.clients THEN s
  ELSE [clients |-> s.clients \ {c},
        client |-> s.client,
        streamers |-> StreamersDelete(s.streamers, c),
        masters |-> s.masters \ {c},
        outbox |-> IF c \in StreamerIds(s.streamers)
                   THEN BroadcastToMasters(s.outbox, s.clients \ {c}, s.masters,
                          Frame("streamer-left", 0, c, s.client[c].deviceName, 0, ""))
                   ELSE s.outbox,
        ms |-> cleanupClient(s.ms, c),
        rec |-> stopRecordingAll(s.rec, SetToSeq(getProducersByClient(s.ms.producers, c)))]

\* Disconnect with a fault: `streamer-left` is broadcast whether or not the identity has a
\* StreamerRecord
Disconnect_AlwaysBroadcasts(c) ==
  /\ c \in clients
  /\ LET ps == getProducersByClient(producers, c)
         r == stopRecordingAll(REC, SetToSeq(ps))
         m == cleanupClient(MS, c)
     IN /\ recordings' = r.recordings
        /\ captures' = r.captures
        /\ timers' = r.timers
        /\ stopSeqs' = r.stopSeqs
        /\ transports' = m.transports
        /\ producers' = m.producers
        /\ consumers' = m.consumers
        /\ engine' = m.engine
        /\ lastDisconnect' = [id |-> c, streamer |-> client[c].role = "streamer",
                              producers |-> Cardinality(ps),
                              video |-> Cardinality({p \in ps : producers[p].kind = "video"}),
                              stops |-> r.stopSeqs - stopSeqs]
        /\ outbox' = BroadcastToMasters(outbox, clients \ {c}, masters,
                            Frame("streamer-left", 0, c, client[c].deviceName, 0, ""))
  /\ streamers' = StreamersDelete(streamers, c)
  /\ masters' = masters \ {c}
  /\ clients' = clients \ {c}
  /\ regOrder' = Without(regOrder, c)
  /\ UNCHANGED <<client, nextClient, tasks, msgSeq, msgCount, nextRtpPort>>
  /\ UNCHANGED <<envVars, lastPanZoom, lastConsume, browserVars, lastUpgrade, audience, directStarts>>
Disconnect(c) ==
  /\ c \in clients
  /\ LET ps == getProducersByClient(producers, c)
         r == stopRecordingAll(REC, SetToSeq(ps))
         m == cleanupClient(MS, c)
     IN /\ recordings' = r.recordings
        /\ captures' = r.captures
        /\ timers' = r.timers
        /\ stopSeqs' = r.stopSeqs
        /\ transports' = m.transports
        /\ producers' = m.producers
        /\ consumers' = m.consumers
        /\ engine' = m.engine
        /\ lastDisconnect' = [id |-> c, streamer |-> client[c].role = "streamer",
                              producers |-> Cardinality(ps),
                              video |-> Cardinality({p \in ps : producers[p].kind = "video"}),
                              stops |-> r.stopSeqs - stopSeqs]
        \* the socket is closed already: the departing identity gets nothing
        /\ outbox' = IF c \in StreamerIds(streamers)
                     THEN BroadcastToMasters(outbox, clients \ {c}, masters,
                            Frame("streamer-left", 0, c, client[c].deviceName, 0, ""))
                     ELSE outbox
  /\ streamers' = StreamersDelete(streamers, c)
  /\ masters' = masters \ {c}
  /\ clients' = clients \ {c}
  /\ regOrder' = Without(regOrder, c)
  /\ UNCHANGED <<client, nextClient, tasks, msgSeq, msgCount, nextRtpPort>>
  /\ UNCHANGED <<envVars, lastPanZoom, lastConsume, browserVars, lastUpgrade, audience, directStarts>>

\* ---- suspended handlers -------------------------------------------------
\* ok: what the engine answers to the request the handler waits for; the worker
\* takes requests in the order they were issued, so the answer is settled by the
\* state at the time of the request.
Task(c, re, type, pc, t, p, kind, name, ok) ==
  [client |-> c, re |-> re, type |-> type, pc |-> pc, transportId |-> t, producerId |-> p,
   kind |-> kind, deviceName |-> name, ok |-> ok, port |-> 0, cap |-> 0]

Awaiting(type, pc) == {k \in tasks : k.type = type /\ k.pc = pc}

ErrorFrame(re) == Frame("error", re, 0, "", 0, "")

\* send(ws, 'error', { message: error.message })
Error(re, msg) == [ErrorFrame(re) EXCEPT !.message = msg]
EngineRejects == "rejected by the engine"

\* the worker no longer has the producer
ProducerGone(e, p) == p \notin DOMAIN e.p \/ p \in e.closedP \/ e.p[p] \in e.closedT

\* ---- handleMessage case 'create-transport' ------------------------------
CreateTransportStart(c) ==
  /\ Arrive(c, "create-transport")
  /\ tasks' = tasks \cup {Task(c, msgSeq'[c], "create-transport", "createWebRtcTransport",
                               0, 0, "", "", TRUE)}
  /\ UNCHANGED <<wsVars, outbox>>
  /\ UNCHANGED <<msVars, recVars, envVars, extVars, lastDisconnect, audience, directStarts>>

\* router.createWebRtcTransport answers: transports.set, streamer.transports.push, reply
CreateTransportDone(k) ==
  /\ k \in Awaiting("create-transport", "createWebRtcTransport")
  /\ LET t == Cardinality(engine.t) + 1
         c == k.client
     IN /\ engine' = [engine EXCEPT !.t = @ \cup {t}]
        /\ transports' = MapSet(transports, t, c)
        /\ streamers' = IF c \in StreamerIds(streamers)
                        THEN StreamersSet(streamers, c,
                               [StreamersGet(streamers, c) EXCEPT !.transports = Append(@, t)])
                        ELSE streamers
        /\ outbox' = Send(outbox, clients, c, Frame("transport-created", k.re, 0, "", t, ""))
  /\ tasks' = tasks \ {k}
  /\ UNCHANGED <<clients, client, masters, nextClient, msgSeq, msgCount, producers, consumers>>
  /\ UNCHANGED <<recVars, envVars, extVars, lastDisconnect, audience, directStarts>>

\* ---- handleMessage case 'produce' ---------------------------------------
\* valid: whether the engine accepts the rtpParameters of the payload
ProduceStart(c, t, kind, valid) ==
  /\ Arrive(c, "produce")
  /\ IF t \notin DOMAIN transports
     THEN /\ outbox' = Send(outbox, clients, c, Error(msgSeq'[c], "Transport not found"))
          /\ UNCHANGED tasks
     ELSE /\ tasks' = tasks \cup {Task(c, msgSeq'[c], "produce", "produce", t, 0, kind,
                                       client[c].deviceName, valid /\ t \notin engine.closedT)}
          /\ UNCHANGED outbox
  /\ UNCHANGED wsVars
  /\ UNCHANGED <<msVars, recVars, envVars, extVars, lastDisconnect, audience, directStarts>>

\* transport.produce answers: producers.set, streamer.producers.push, broadcast, and the
\* synchronous head of recorder.startRecording
ProduceDone(k) ==
  /\ k \in Awaiting("produce", "produce")
  /\ LET c == k.client
         p == Cardinality(DOMAIN engine.p) + 1
         port == getNextPort(nextRtpPort)
         records == Recorded(k.kind, ffmpegAvailable)
     IN IF ~k.ok
        THEN /\ outbox' = Send(outbox, clients, c, Error(k.re, EngineRejects))
             /\ tasks' = tasks \ {k}
             /\ UNCHANGED <<streamers, producers, engine, audience, nextRtpPort>>
        ELSE /\ engine' = [engine EXCEPT !.p = MapSet(@, p, k.transportId)]
             /\ producers' = MapSet(producers, p,
                               [clientId |-> c, deviceName |-> k.deviceName, kind |-> k.kind])
             /\ streamers' = IF c \in StreamerIds(streamers)
                             THEN StreamersSet(streamers, c,
                                    [StreamersGet(streamers, c) EXCEPT !.producers = Append(@, p)])
                             ELSE streamers
             /\ audience' = MapSet(audience, p,
                              [viewers |-> {v \in clients : client[v].role = "master"},
                               clientId |-> c, kind |-> k.kind])
             /\ LET ob1 == BroadcastToMasters(outbox, clients, masters,
                             Frame("new-producer", 0, c, client[c].deviceName, p, k.kind))
                IN IF records
                   THEN /\ nextRtpPort' = port.next
                        /\ tasks' = (tasks \ {k}) \cup
                             {[k EXCEPT !.pc = "createPlainTransport", !.producerId = p,
                                        !.port = port.port, !.deviceName = client[c].deviceName]}
                        /\ outbox' = ob1
                   ELSE /\ outbox' = Send(ob1, clients, c, Frame("produced", k.re, 0, "", p, k.kind))
                        /\ tasks' = tasks \ {k}
                        /\ UNCHANGED nextRtpPort
  /\ UNCHANGED <<clients, client, masters, nextClient, msgSeq, msgCount, transports, consumers>>
  /\ UNCHANGED <<recordings, captures, timers, stopSeqs, envVars, extVars, lastDisconnect, directStarts>>

\* ---- recorder.startRecording, after its first await ---------------------
\* what the caller does when startRecording returns: the produce handler sends
\* 'produced'; a direct caller does nothing more
\* with a fault: a recording that failed is reported to the streamer
Returned_ErrorOnFailure(k) ==
  IF k.type = "produce"
  THEN Send(outbox, clients, k.client,
            IF k.ok THEN Frame("produced", k.re, 0, "", k.producerId, k.kind)
            ELSE Error(k.re, "Recording failed"))
  ELSE outbox

Returned(k) ==
  IF k.type = "produce"
  THEN Send(outbox, clients, k.client, Frame("produced", k.re, 0, "", k.producerId, k.kind))
  ELSE outbox

\* router.createPlainTransport answers; plainTransport.consume is requested
RecPlainTransportCreated(k) ==
  /\ k \in tasks /\ k.pc = "createPlainTransport"
  /\ captures' = Append(captures,
                   [producerId |-> k.producerId, rtpPort |-> k.port, transport |-> "open",
                    consumer |-> "none", ffmpeg |-> "none", sdp |-> FALSE, stopLog |-> <<>>])
  /\ tasks' = (tasks \ {k}) \cup
       {[k EXCEPT !.pc = "plainConsume", !.cap = Len(captures) + 1,
                  !.ok = ~ProducerGone(engine, k.producerId)]}
  /\ UNCHANGED <<wsVars, msgSeq, msgCount, outbox>>
  /\ UNCHANGED <<msVars, nextRtpPort, recordings, timers, stopSeqs>>
  /\ UNCHANGED <<envVars, extVars, lastDisconnect, audience, directStarts>>

\* RecConsumed with a fault: the consumer is created without `paused: true`
RecConsumed_NotPaused(k) ==
  /\ k \in tasks /\ k.pc = "plainConsume"
  /\ IF k.ok
     THEN /\ captures' = [captures EXCEPT ![k.cap].consumer = "flowing"]
          /\ tasks' = (tasks \ {k}) \cup {[k EXCEPT !.pc = "plainConnect"]}
          /\ UNCHANGED outbox
     ELSE /\ outbox' = Returned(k)
          /\ tasks' = tasks \ {k}
          /\ UNCHANGED captures
  /\ UNCHANGED <<wsVars, msgSeq, msgCount>>
  /\ UNCHANGED <<msVars, nextRtpPort, recordings, timers, stopSeqs>>
  /\ UNCHANGED <<envVars, extVars, lastDisconnect, audience, directStarts>>
\* plainTransport.consume({paused: true}) answers; plainTransport.connect is requested
RecConsumed(k) ==
  /\ k \in tasks /\ k.pc = "plainConsume"
  /\ IF k.ok
     THEN /\ captures' = [captures EXCEPT ![k.cap].consumer = "paused"]
          /\ tasks' = (tasks \ {k}) \cup {[k EXCEPT !.pc = "plainConnect"]}
          /\ UNCHANGED outbox
     ELSE \* caught: startRecording returns null
          /\ outbox' = Returned(k)
          /\ tasks' = tasks \ {k}
          /\ UNCHANGED captures
  /\ UNCHANGED <<wsVars, msgSeq, msgCount>>
  /\ UNCHANGED <<msVars, nextRtpPort, recordings, timers, stopSeqs>>
  /\ UNCHANGED <<envVars, extVars, lastDisconnect, audience, directStarts>>

\* plainTransport.connect answers: the SDP is written, ffmpeg is spawned, sleep(1000)
RecConnected(k) ==
  /\ k \in tasks /\ k.pc = "plainConnect"
  /\ captures' = [captures EXCEPT ![k.cap].sdp = TRUE, ![k.cap].ffmpeg = "running"]
  /\ tasks' = (tasks \ {k}) \cup {[k EXCEPT !.pc = "sleep"]}
  /\ UNCHANGED <<wsVars, msgSeq, msgCount, outbox>>
  /\ UNCHANGED <<msVars, nextRtpPort, recordings, timers, stopSeqs>>
  /\ UNCHANGED <<envVars, extVars, lastDisconnect, audience, directStarts>>

\* the grace delay is over; consumer.resume is requested
RecSlept(k) ==
  /\ k \in tasks /\ k.pc = "sleep"
  /\ tasks' = (tasks \ {k}) \cup
       {[k EXCEPT !.pc = "resume",
                  !.ok = captures[k.cap].consumer = "paused" /\ ~ProducerGone(engine, k.producerId)]}
  /\ UNCHANGED <<wsVars, msgSeq, msgCount, outbox>>
  /\ UNCHANGED <<msVars, recVars, envVars, extVars, lastDisconnect, audience, directStarts>>

\* consumer.resume answers: recordings.set, return
RecResumed(k) ==
  /\ k \in tasks /\ k.pc = "resume"
  /\ IF k.ok
     THEN /\ recordings' = MapSet(recordings, k.producerId, k.cap)
          /\ captures' = [captures EXCEPT ![k.cap].consumer =
                            IF @ = "paused" THEN "flowing" ELSE @]
     ELSE UNCHANGED <<recordings, captures>>
  /\ outbox' = Returned(k)
  /\ tasks' = tasks \ {k}
  /\ UNCHANGED <<wsVars, msgSeq, msgCount>>
  /\ UNCHANGED <<msVars, nextRtpPort, timers, stopSeqs>>
  /\ UNCHANGED <<envVars, extVars, lastDisconnect, audience, directStarts>>

\* ---- recorder.stopRecording timers and the encoder process --------------
\* states of the encoder process of a capture: "none" (not spawned), "running",
\* "quitting" ('q' written to its stdin), "interrupted" (SIGINT delivered by kill(), which
\* sets ffmpeg.killed), "exited"
Alive == {"running", "quitting", "interrupted"}

\* setTimeout(..., 500): 'q' to ffmpeg (SIGINT if the write throws), force-kill timer,
\* transport closed, SDP removed.  writes: ffmpeg.stdin.write('q') does not throw
FlushTimer(i, writes) ==
  /\ [cap |-> i, phase |-> "flush"] \in timers
  /\ captures' = [captures EXCEPT ![i].ffmpeg = IF @ = "running"
                                                THEN (IF writes THEN "quitting" ELSE "interrupted")
                                                ELSE @,
                                  ![i].transport = "closed",
                                  ![i].sdp = FALSE,
                                  ![i].stopLog = @ \o <<"ffmpeg.stop", "plainTransport.close",
                                                        "unlinkSync">>]
  /\ timers' = (timers \ {[cap |-> i, phase |-> "flush"]}) \cup {[cap |-> i, phase |-> "kill"]}
  /\ UNCHANGED <<wsVars, tasks, msgSeq, msgCount, outbox>>
  /\ UNCHANGED <<msVars, nextRtpPort, recordings, stopSeqs>>
  /\ UNCHANGED <<envVars, extVars, lastDisconnect, audience, directStarts>>

\* setTimeout(..., 3000): SIGKILL, unless ffmpeg.killed is set
KillTimer(i) ==
  /\ [cap |-> i, phase |-> "kill"] \in timers
  /\ captures' = [captures EXCEPT ![i].ffmpeg = IF @ \in {"running", "quitting"} THEN "exited" ELSE @,
                                  ![i].sdp = IF captures[i].ffmpeg \in {"running", "quitting"}
                                             THEN FALSE ELSE @]
  /\ timers' = timers \ {[cap |-> i, phase |-> "kill"]}
  /\ UNCHANGED <<wsVars, tasks, msgSeq, msgCount, outbox>>
  /\ UNCHANGED <<msVars, nextRtpPort, recordings, stopSeqs>>
  /\ UNCHANGED <<envVars, extVars, lastDisconnect, audience, directStarts>>

\* the encoder process exits (after 'q', or on its own): ffmpeg.on('close')
FfmpegExit(i) ==
  /\ i \in 1..Len(captures)
  /\ captures[i].ffmpeg \in Alive
  /\ captures' = [captures EXCEPT ![i].ffmpeg = "exited", ![i].sdp = FALSE]
  /\ UNCHANGED <<wsVars, tasks, msgSeq, msgCount, outbox>>
  /\ UNCHANGED <<msVars, nextRtpPort, recordings, timers, stopSeqs>>
  /\ UNCHANGED <<envVars, extVars, lastDisconnect, audience, directStarts>>

\* ---- handleMessage case 'consume' ---------------------------------------
\* can: router.canConsume for the rtpCapabilities of the payload
\* the checks createConsumer makes before it asks the engine: the message of the Error
\* it throws, "" when it throws none.  With a fault: the producer is not looked up, so a
\* missing producer is only found by router.canConsume
createConsumerError_NoProducerCheck(ts, ps, t, p, can) ==
  IF t \notin DOMAIN ts THEN "Transport not found"
  ELSE IF p \notin DOMAIN ps \/ ~can THEN "Cannot consume producer"
  ELSE ""

createConsumerError(ts, ps, t, p, can) ==
  IF t \notin DOMAIN ts THEN "Transport not found"
  ELSE IF p \notin DOMAIN ps THEN "Producer not found"
  ELSE IF ~can THEN "Cannot consume producer"
  ELSE ""

ConsumeStart(c, t, p, can) ==
  /\ Arrive(c, "consume")
  /\ LET err == createConsumerError(transports, producers, t, p, can)
     IN IF err # ""
        THEN /\ outbox' = Send(outbox, clients, c, Error(msgSeq'[c], err))
             /\ UNCHANGED tasks
        ELSE /\ tasks' = tasks \cup {Task(c, msgSeq'[c], "consume", "consume", t, p, producers[p].kind, "",
                                          t \notin engine.closedT /\ ~ProducerGone(engine, p))}
             /\ UNCHANGED outbox
  /\ lastConsume' = [from |-> c, transportId |-> t, producerId |-> p,
                      owner |-> IF p \in DOMAIN audience THEN audience[p].clientId ELSE 0,
                      ownerGone |-> p \in DOMAIN audience /\ audience[p].clientId \notin clients]
  /\ UNCHANGED wsVars
  /\ UNCHANGED <<msVars, recVars, envVars, regOrder, lastPanZoom, browserVars, lastUpgrade>>
  /\ UNCHANGED <<lastDisconnect, audience, directStarts>>

\* transport.consume answers: consumers.set, reply
ConsumeDone(k) ==
  /\ k \in Awaiting("consume", "consume")
  /\ LET c == k.client
         n == Cardinality(DOMAIN engine.c) + 1
     IN IF ~k.ok
        THEN /\ outbox' = Send(outbox, clients, c, Error(k.re, EngineRejects))
             /\ UNCHANGED <<engine, consumers>>
        ELSE /\ engine' = [engine EXCEPT !.c = MapSet(@, n, [t |-> k.transportId, p |-> k.producerId])]
             /\ consumers' = MapSet(consumers, n, [clientId |-> c, producerId |-> k.producerId])
             /\ outbox' = Send(outbox, clients, c,
                            Frame("consumed", k.re, 0, "", k.producerId, k.kind))
  /\ tasks' = tasks \ {k}
  /\ UNCHANGED <<wsVars, msgSeq, msgCount, transports, producers>>
  /\ UNCHANGED <<recVars, envVars, extVars, lastDisconnect, audience, directStarts>>

\* ---- events of the media engine -----------------------------------------
\* transport.on('dtlsstatechange') with 'closed': transport.close()
DtlsClosed(t, emits) ==
  /\ t \in engine.t \ engine.closedT
  /\ LET m == CloseTransports(MS, {t}, emits)
     IN /\ transports' = m.transports
        /\ producers' = m.producers
        /\ consumers' = m.consumers
        /\ engine' = m.engine
  /\ UNCHANGED <<wsVars, tasks, msgSeq, msgCount, outbox>>
  /\ UNCHANGED <<recVars, envVars, extVars, lastDisconnect, audience, directStarts>>

\* consumer.on('producerclose')
ProducerCloseNotified(n) ==
  /\ n \in engine.notes
  /\ engine' = [engine EXCEPT !.notes = @ \ {n}, !.closedC = @ \cup {n}]
  /\ consumers' = MapDel(consumers, {n})
  /\ UNCHANGED <<wsVars, tasks, msgSeq, msgCount, outbox, transports, producers>>
  /\ UNCHANGED <<recVars, envVars, extVars, lastDisconnect, audience, directStarts>>

TransportIds == 1..MaxTransports
ProducerIds == 1..MaxProducers
ConsumerIds == 1..MaxConsumers
\* the identities a 'pan-zoom' may name: those of the run and one that never connects
Targets == 1..(MaxClients + 1)

\* ---- handleMessage case 'pan-zoom' --------------------------------------
\* the payloads of 'pan-zoom' (besides targetClientId): no zoom, and a zoom off centre
PanZoomPayloads == {[zoom |-> 1, panX |-> 0, panY |-> 0], [zoom |-> 2, panX |-> 1, panY |-> -1]}

PanZoomCommand(pl) ==
  [Frame("pan-zoom-command", 0, 0, "", 0, "")
     EXCEPT !.zoom = pl.zoom, !.panX = pl.panX, !.panY = pl.panY]

\* with a fault: a target that is gone is reported to the sender
PanZoom_ErrorWhenGone(c, t, pl) ==
  /\ Arrive(c, "pan-zoom")
  /\ outbox' = IF t \in clients /\ WsOpen(clients, t)
               THEN Send(outbox, clients, t, PanZoomCommand(pl))
               ELSE Send(outbox, clients, c, Error(msgSeq'[c], "Target not found"))
  /\ lastPanZoom' = [from |-> c, target |-> t, open |-> t \in clients, payload |-> pl]
  /\ UNCHANGED <<wsVars, tasks>>
  /\ UNCHANGED <<msVars, recVars, envVars, regOrder, lastConsume, browserVars, lastUpgrade>>
  /\ UNCHANGED <<lastDisconnect, audience, directStarts>>

PanZoom(c, t, pl) ==
  /\ Arrive(c, "pan-zoom")
  /\ outbox' = IF t \in clients /\ WsOpen(clients, t)
               THEN Send(outbox, clients, t, PanZoomCommand(pl))
               ELSE outbox
  /\ lastPanZoom' = [from |-> c, target |-> t, open |-> t \in clients, payload |-> pl]
  /\ UNCHANGED <<wsVars, tasks>>
  /\ UNCHANGED <<msVars, recVars, envVars, regOrder, lastConsume, browserVars, lastUpgrade>>
  /\ UNCHANGED <<lastDisconnect, audience, directStarts>>

\* ---- ws.on('message'): a frame JSON.parse or the destructuring of handleMessage
\* throws on --------------------------------------------------------------
\* with a fault: the error goes to the viewers as well
Malformed_Broadcast(c) ==
  /\ Arrive(c, "malformed")
  /\ outbox' = BroadcastToMasters(Send(outbox, clients, c, Error(msgSeq'[c], "malformed frame")),
                                  clients, masters, Error(0, "malformed frame"))
  /\ UNCHANGED <<wsVars, tasks>>
  /\ UNCHANGED <<msVars, recVars, envVars, extVars, lastDisconnect, audience, directStarts>>

Malformed(c) ==
  /\ Arrive(c, "malformed")
  /\ outbox' = Send(outbox, clients, c, Error(msgSeq'[c], "malformed frame"))
  /\ UNCHANGED <<wsVars, tasks>>
  /\ UNCHANGED <<msVars, recVars, envVars, extVars, lastDisconnect, audience, directStarts>>

\* ---- handleMessage case 'connect-transport' -----------------------------
\* valid: whether the engine accepts the dtlsParameters of the payload
ConnectTransportStart(c, t, valid) ==
  /\ Arrive(c, "connect-transport")
  /\ IF t \notin DOMAIN transports
     THEN /\ outbox' = Send(outbox, clients, c, Error(msgSeq'[c], "Transport not found"))
          /\ UNCHANGED tasks
     ELSE /\ tasks' = tasks \cup {Task(c, msgSeq'[c], "connect-transport", "connect", t, 0, "", "",
                                       valid /\ t \notin engine.closedT)}
          /\ UNCHANGED outbox
  /\ UNCHANGED wsVars
  /\ UNCHANGED <<msVars, recVars, envVars, extVars, lastDisconnect, audience, directStarts>>

\* transport.connect answers
ConnectTransportDone(k) ==
  /\ k \in Awaiting("connect-transport", "connect")
  /\ outbox' = Send(outbox, clients, k.client,
                    IF k.ok THEN Frame("transport-connected", k.re, 0, "", k.transportId, "")
                    ELSE Error(k.re, EngineRejects))
  /\ tasks' = tasks \ {k}
  /\ UNCHANGED <<wsVars, msgSeq, msgCount>>
  /\ UNCHANGED <<msVars, recVars, envVars, extVars, lastDisconnect, audience, directStarts>>

\* ---- handleMessage case 'resume-consumer' -------------------------------
ResumeConsumerStart(c, n) ==
  /\ Arrive(c, "resume-consumer")
  /\ IF n \notin DOMAIN consumers
     THEN /\ outbox' = Send(outbox, clients, c, Error(msgSeq'[c], "Consumer not found"))
          /\ UNCHANGED tasks
     ELSE /\ tasks' = tasks \cup {Task(c, msgSeq'[c], "resume-consumer", "resume", 0, n, "", "",
                                       n \notin engine.closedC)}
          /\ UNCHANGED outbox
  /\ UNCHANGED wsVars
  /\ UNCHANGED <<msVars, recVars, envVars, extVars, lastDisconnect, audience, directStarts>>

\* consumer.resume answers
ResumeConsumerDone(k) ==
  /\ k \in Awaiting("resume-consumer", "resume")
  /\ outbox' = Send(outbox, clients, k.client,
                    IF k.ok THEN Frame("consumer-resumed", k.re, 0, "", k.producerId, "")
                    ELSE Error(k.re, EngineRejects))
  /\ tasks' = tasks \ {k}
  /\ UNCHANGED <<wsVars, msgSeq, msgCount>>
  /\ UNCHANGED <<msVars, recVars, envVars, extVars, lastDisconnect, audience, directStarts>>

Next ==
  \/ Connect
  \/ \E c \in Ids, pl \in RegisterPayloads : Register(c, pl.role, pl.deviceName)
  \/ \E c \in Ids : StopStreaming(c)
  \/ \E c \in Ids : Disconnect(c)
  \/ \E c \in Ids : CreateTransportStart(c)
  \/ \E k \in tasks : CreateTransportDone(k)
  \/ \E c \in Ids, t \in TransportIds, kind \in Kinds, valid \in BOOLEAN : ProduceStart(c, t, kind, valid)
  \/ \E k \in tasks : ProduceDone(k)
  \/ \E k \in tasks : RecPlainTransportCreated(k)
  \/ \E k \in tasks : RecConsumed(k)
  \/ \E k \in tasks : RecConnected(k)
  \/ \E k \in tasks : RecSlept(k)
  \/ \E k \in tasks : RecResumed(k)
  \/ \E i \in 1..Len(captures), writes \in BOOLEAN : FlushTimer(i, writes)
  \/ \E i \in 1..Len(captures) : KillTimer(i)
  \/ \E i \in 1..Len(captures) : FfmpegExit(i)
  \/ \E c \in Ids, t \in TransportIds, p \in ProducerIds, can \in BOOLEAN : ConsumeStart(c, t, p, can)
  \/ \E k \in tasks : ConsumeDone(k)
  \/ \E t \in TransportIds, emits \in BOOLEAN : DtlsClosed(t, emits)
  \/ \E n \in 1..MaxConsumers : ProducerCloseNotified(n)

Spec == Init /\ [][Next]_vars

\* ---- the recorder in a server that has run for a while -------------------
\* The state after one streamer has connected, registered, created a transport and produced
\* video that is being recorded on the first port pair, with the port counter at n: at
\* FirstRtpPort + 2 this is the state right after that start; at LastRtpPort and at
\* FirstRtpPort it is the state 5000 and 5001 starts later, the sessions of those starts
\* having ended (their pipelines are left out).  The budgets of the run count from here.
Running(n) ==
  /\ clients = {1}
  /\ client = 1 :> [role |-> "streamer", deviceName |-> DefaultName(1)]
  /\ streamers = <<[id |-> 1, deviceName |-> DefaultName(1), producers |-> <<1>>, transports |-> <<1>>]>>
  /\ masters = {}
  /\ nextClient = 2
  /\ tasks = {}
  /\ msgSeq = [c \in Ids |-> IF c = 1 THEN 3 ELSE 0]
  /\ msgCount = [type \in MsgTypes |-> 0]
  /\ outbox = [c \in Ids |->
                 IF c = 1
                 THEN <<Welcome(1),
                        Frame("registered", 1, 0, DefaultName(1), 0, "streamer"),
                        Frame("transport-created", 2, 0, "", 1, ""),
                        Frame("produced", 3, 0, "", 1, "video")>>
                 ELSE <<>>]
  /\ transports = 1 :> 1
  /\ producers = 1 :> [clientId |-> 1, deviceName |-> DefaultName(1), kind |-> "video"]
  /\ consumers = EmptyMap
  /\ engine = [t |-> {1}, p |-> 1 :> 1, c |-> EmptyMap,
               closedT |-> {}, closedP |-> {}, closedC |-> {}, notes |-> {}]
  /\ ffmpegAvailable = TRUE
  /\ nextRtpPort = n
  /\ recordings = 1 :> 1
  /\ captures = <<[producerId |-> 1, rtpPort |-> FirstRtpPort, transport |-> "open",
                   consumer |-> "flowing", ffmpeg |-> "running", sdp |-> TRUE, stopLog |-> <<>>]>>
  /\ timers = {}
  /\ stopSeqs = 0
  /\ lastDisconnect = [id |-> 0, streamer |-> FALSE, producers |-> 0, video |-> 0, stops |-> 0]
  /\ audience = 1 :> [viewers |-> {}, clientId |-> 1, kind |-> "video"]
  /\ directStarts = 0
  /\ regOrder = <<1>>
  /\ lastPanZoom = [from |-> 0, target |-> 0, open |-> FALSE,
                    payload |-> [zoom |-> 0, panX |-> 0, panY |-> 0]]
  /\ lastConsume = [from |-> 0, transportId |-> 0, producerId |-> 0, owner |-> 0, ownerGone |-> FALSE]
  /\ cctv = NewCCTVClient
  /\ wire = {}
  /\ lastUpgrade = [n |-> 0, header |-> NoHeader]

\* the values of the port counter the run starts at
CounterStarts == {FirstRtpPort + 2, LastRtpPort, FirstRtpPort}

InitPorts == \E n \in CounterStarts : Running(n)

\* ---- recorder.startRecording called by another module -------------------
\* recorder.js exports startRecording; this is a call of it for a producer of the
\* registry, besides the one the produce handler makes
DirectStartRecording(p) ==
  /\ directStarts < MaxDirectStarts
  /\ directStarts' = directStarts + 1
  /\ IF ffmpegAvailable /\ p \in DOMAIN producers
     THEN LET port == getNextPort(nextRtpPort)
          IN /\ nextRtpPort' = port.next
             /\ tasks' = tasks \cup
                  {[Task(0, 0, "direct", "createPlainTransport", 0, p, "video",
                         producers[p].deviceName, TRUE) EXCEPT !.port = port.port]}
     ELSE UNCHANGED <<nextRtpPort, tasks>>
  /\ UNCHANGED <<wsVars, msgSeq, msgCount, outbox>>
  /\ UNCHANGED <<msVars, recordings, captures, timers, stopSeqs>>
  /\ UNCHANGED <<envVars, extVars, lastDisconnect, audience>>

RecorderSteps ==
  \/ \E k \in tasks : RecPlainTransportCreated(k)
  \/ \E k \in tasks : RecConsumed(k)
  \/ \E k \in tasks : RecConnected(k)
  \/ \E k \in tasks : RecSlept(k)
  \/ \E k \in tasks : RecResumed(k)
  \/ \E i \in 1..Len(captures), writes \in BOOLEAN : FlushTimer(i, writes)
  \/ \E i \in 1..Len(captures) : KillTimer(i)
  \/ \E i \in 1..Len(captures) : FfmpegExit(i)

\* the recorder driven by a streamer that produces and leaves, and by a second caller
NextRecorder ==
  \/ Connect
  \/ \E c \in Ids : Disconnect(c)
  \/ \E c \in Ids : CreateTransportStart(c)
  \/ \E k \in tasks : CreateTransportDone(k)
  \/ \E c \in Ids, t \in TransportIds, kind \in Kinds, valid \in BOOLEAN : ProduceStart(c, t, kind, valid)
  \/ \E k \in tasks : ProduceDone(k)
  \/ RecorderSteps
  \/ \E p \in ProducerIds : DirectStartRecording(p)

SpecRecorder == Init /\ [][NextRecorder]_vars

\* a server that has run for a while: the streamer produces again and leaves, and a second
\* caller starts a recording
NextPorts ==
  \/ \E c \in Ids : Disconnect(c)
  \/ \E c \in Ids, t \in TransportIds, kind \in Kinds, valid \in BOOLEAN : ProduceStart(c, t, kind, valid)
  \/ \E k \in tasks : ProduceDone(k)
  \/ RecorderSteps
  \/ \E p \in ProducerIds : DirectStartRecording(p)

SpecPorts == InitPorts /\ [][NextPorts]_vars

\* ---- registration and remote control: no media -------------------------
NextControl ==
  \/ Connect
  \/ \E c \in Ids, pl \in RegisterPayloads : Register(c, pl.role, pl.deviceName)
  \/ \E c \in Ids : StopStreaming(c)
  \/ \E c \in Ids : Disconnect(c)
  \/ \E c \in Ids, t \in Targets, pl \in PanZoomPayloads : PanZoom(c, t, pl)

SpecControl == Init /\ [][NextControl]_vars

\* a server with authentication on: connections, registrations and departures
NextAuth ==
  \/ \E h \in Headers : Connection(h)
  \/ \E c \in Ids, pl \in RegisterPayloads : Register(c, pl.role, pl.deviceName)
  \/ \E c \in Ids : Disconnect(c)

SpecAuth == Init /\ [][NextAuth]_vars

\* ---- the requests that can fail, and what they need ---------------------
NextErrors ==
  \/ Connect
  \/ \E c \in Ids, pl \in RegisterPayloads : Register(c, pl.role, pl.deviceName)
  \/ \E c \in Ids : Disconnect(c)
  \/ \E c \in Ids : Malformed(c)
  \/ \E c \in Ids : CreateTransportStart(c)
  \/ \E k \in tasks : CreateTransportDone(k)
  \/ \E c \in Ids, t \in TransportIds, valid \in BOOLEAN : ConnectTransportStart(c, t, valid)
  \/ \E k \in tasks : ConnectTransportDone(k)
  \/ \E c \in Ids, t \in TransportIds, kind \in Kinds, valid \in BOOLEAN : ProduceStart(c, t, kind, valid)
  \/ \E k \in tasks : ProduceDone(k)
  \/ \E c \in Ids, t \in TransportIds, p \in ProducerIds, can \in BOOLEAN : ConsumeStart(c, t, p, can)
  \/ \E k \in tasks : ConsumeDone(k)
  \/ \E c \in Ids, n \in ConsumerIds : ResumeConsumerStart(c, n)
  \/ \E k \in tasks : ResumeConsumerDone(k)

SpecErrors == Init /\ [][NextErrors]_vars

\* ========================================================================
\* public/js/common.js: the CCTVClient object of a browser page, extended by
\* MasterDashboard (master.js) or DeviceStreamer (device.js).  The server is
\* the environment here: `wire` holds the requests it has got on the open
\* socket and may still answer.
\* ========================================================================
Directions == {"send", "recv"}
Apps == {"master", "device"}

\* continuations (resolve/reject pairs and callbacks) are numbered as they are made;
\* promises[k] is what became of number k
Stored(b) ==
  {b.pendingTransports[i].k : i \in 1..Len(b.pendingTransports)}
    \cup {b.pendingTransportConnects[t] : t \in DOMAIN b.pendingTransportConnects}
    \cup {b.pendingProduces[i].k : i \in 1..Len(b.pendingProduces)}
    \cup {b.pendingConsumes[p] : p \in DOMAIN b.pendingConsumes}

transportOf(b, dir) == IF dir = "send" THEN b.sendTransport ELSE b.recvTransport
promiseOf(b, dir) == IF dir = "send" THEN b.sendTransportPromise ELSE b.recvTransportPromise
SetTransport(b, dir, t) ==
  IF dir = "send" THEN [b EXCEPT !.sendTransport = t] ELSE [b EXCEPT !.recvTransport = t]
SetPromise(b, dir, k) ==
  IF dir = "send" THEN [b EXCEPT !.sendTransportPromise = k] ELSE [b EXCEPT !.recvTransportPromise = k]

\* this.ws.readyState === WebSocket.OPEN
SocketOpen(b) == b.ws # 0 /\ b.sock[b.ws] = "open"
OpenSockets(b) == {n \in 1..Len(b.sock) : b.sock[n] = "open"}

\* this.send(type, payload): dropped unless this.ws is open.  on: the socket it went out on
ClientSend(b, w, req) == IF SocketOpen(b) THEN w \cup {[req EXCEPT !.on = b.ws]} ELSE w
Request(type, key, k) == [type |-> type, key |-> key, k |-> k, on |-> 0]

\* the index of the first pending entry the predicate holds of, 0 if none
FirstOf(q, Test(_)) ==
  IF \E i \in 1..Len(q) : Test(q[i])
  THEN CHOOSE i \in 1..Len(q) : Test(q[i]) /\ \A j \in 1..(i - 1) : ~Test(q[j])
  ELSE 0
RemoveAt(q, i) == [j \in 1..(Len(q) - 1) |-> IF j < i THEN q[j] ELSE q[j + 1]]

\* Map.set on an insertion-ordered Map of entries with a key field `id`
PendingSet(q, e) ==
  LET i == FirstOf(q, LAMBDA x : x.id = e.id)
  IN IF i = 0 THEN Append(q, e) ELSE [q EXCEPT ![i] = e]

\* connectToServer -> connect(): this.ws = new WebSocket(wsUrl); the socket that was
\* this.ws before stays as it is, with its listeners
connectToServer(b) ==
  [b EXCEPT !.sockets = @ + 1, !.ws = b.sockets + 1, !.sock = Append(@, "connecting")]

\* the catch of connectToServer: the dashboard arms its 5 s retry, the device only logs
catchConnect(b) == IF b.app = "master" THEN [b EXCEPT !.retries = @ + 1] ELSE b

\* handleDisconnect of the page.  The dashboard clears isConnected and its tiles and arms
\* the 3 s reconnect; the device calls stopStreaming (sendTransport and
\* sendTransportPromise are reset) and arms the 3 s reconnect
pageDisconnect(b) ==
  IF b.app = "device"
  THEN [b EXCEPT !.sendTransport = 0, !.sendTransportPromise = 0, !.reconnects = @ + 1]
  ELSE [b EXCEPT !.isConnected = FALSE, !.reconnects = @ + 1]

\* the page is loaded: new MasterDashboard() or new DeviceStreamer(), init(), connectToServer()
Load(app, lib) ==
  /\ cctv.app = "none"
  /\ cctv' = connectToServer([cctv EXCEPT !.app = app, !.lib = lib])
  /\ UNCHANGED wire
  /\ UNCHANGED serverVars

\* socket n opens and 'welcome' arrives on it: ws.onopen, the connect() promise resolves and
\* connectToServer goes on.  The dashboard loads the mediasoup-client device, which throws
\* if the script is not there (then the catch runs), sets its handlers up and sends 'register'
onopen(n) ==
  /\ n \in 1..Len(cctv.sock) /\ cctv.sock[n] = "connecting"
  /\ LET b == [cctv EXCEPT !.sock[n] = "open", !.connected = TRUE, !.announced = {}]
     IN IF cctv.app = "master"
        THEN IF cctv.lib
             THEN /\ cctv' = b
                  /\ wire' = ClientSend(b, wire, Request("register", "master", 0))
             ELSE /\ cctv' = catchConnect(b)
                  /\ UNCHANGED wire
        ELSE /\ cctv' = b
             /\ UNCHANGED wire
  /\ UNCHANGED serverVars

\* 'registered' arrives on the dashboard: isConnected = true
registered(w) ==
  /\ w \in wire /\ w.type = "register"
  /\ wire' = wire \ {w}
  /\ cctv' = [cctv EXCEPT !.isConnected = TRUE, !.registered = @ \cup {w.on}]
  /\ UNCHANGED serverVars

\* the connection attempt of socket n fails: the browser fires 'error' (ws.onerror rejects
\* the connect() promise, so the catch of connectToServer runs) and then 'close'
\* (ws.onclose: connected = false, handleDisconnect)
onfail(n) ==
  /\ n \in 1..Len(cctv.sock) /\ cctv.sock[n] = "connecting"
  /\ cctv' = pageDisconnect(catchConnect([cctv EXCEPT !.sock[n] = "closed", !.connected = FALSE]))
  /\ UNCHANGED wire
  /\ UNCHANGED serverVars

\* the open socket n closes: ws.onclose sets connected = false and calls handleDisconnect.
\* The server answers nothing more on this socket and forgets its identity
onclose(n) ==
  /\ n \in OpenSockets(cctv)
  /\ cctv' = pageDisconnect([cctv EXCEPT !.sock[n] = "closed", !.connected = FALSE,
                                          !.registered = @ \ {n}])
  /\ wire' = {w \in wire : w.on # n}
  /\ UNCHANGED serverVars

\* the 3 s timer of handleDisconnect fires: the dashboard reconnects if isConnected is not
\* set, the device reconnects
ReconnectTimer ==
  /\ cctv.reconnects > 0
  /\ IF cctv.app = "master" /\ cctv.isConnected
     THEN cctv' = [cctv EXCEPT !.reconnects = @ - 1]
     ELSE /\ cctv.sockets < MaxSockets
          /\ cctv' = connectToServer([cctv EXCEPT !.reconnects = @ - 1])
  /\ UNCHANGED wire
  /\ UNCHANGED serverVars

\* the 5 s timer of the dashboard's catch fires: connectToServer()
RetryTimer ==
  /\ cctv.retries > 0
  /\ cctv.sockets < MaxSockets
  /\ cctv' = connectToServer([cctv EXCEPT !.retries = @ - 1])
  /\ UNCHANGED wire
  /\ UNCHANGED serverVars

\* createSendTransport / createRecvTransport while the transport is not there: the call
\* waits for the stored promise if there is one, else it stores a new promise and a pending
\* entry with its 10 s timer and sends 'create-transport'.  The pages call it while they
\* handle a frame ('registered', 'streamer-list', 'new-producer'): the socket is open
\* and the mediasoup-client device is loaded.
createTransport(dir) ==
  /\ SocketOpen(cctv)
  /\ cctv.lib
  /\ cctv.calls < MaxCalls
  /\ transportOf(cctv, dir) = 0
  /\ IF promiseOf(cctv, dir) # 0
     THEN /\ cctv' = [cctv EXCEPT !.calls = @ + 1, !.awaits = Append(@, promiseOf(cctv, dir))]
          /\ UNCHANGED wire
     ELSE LET k == Len(cctv.promises) + 1
              b == SetPromise(cctv, dir, k)
          IN /\ cctv' = [b EXCEPT !.promises = Append(@, "pending"),
                                  !.calls = @ + 1,
                                  !.directionOf = Append(@, dir),
                                  !.timeouts = @ \cup {k},
                                  !.awaits = Append(@, k),
                                  !.pendingTransports = Append(@, [id |-> k, direction |-> dir, k |-> k])]
             /\ wire' = ClientSend(cctv, wire, Request("create-transport", dir, k))
  /\ UNCHANGED serverVars

createSendTransport == cctv.app = "device" /\ createTransport("send")

createRecvTransport == cctv.app = "master" /\ createTransport("recv")

\* the promise of a transport creation is rejected: the catch of createSendTransport /
\* createRecvTransport sets this.sendTransportPromise / recvTransportPromise to null
Rejected(b, k, dir) ==
  SetPromise([b EXCEPT !.promises[k] = "rejected", !.timeouts = @ \ {k}], dir, 0)

\* setTimeout(..., 10000) of a transport creation fires
TransportTimeout(k) ==
  /\ k \in cctv.timeouts
  /\ LET i == FirstOf(cctv.pendingTransports, LAMBDA x : x.id = k)
         b == IF i = 0 THEN cctv ELSE [cctv EXCEPT !.pendingTransports = RemoveAt(@, i)]
     IN cctv' = Rejected(b, k, cctv.directionOf[k])
  /\ UNCHANGED wire
  /\ UNCHANGED serverVars

\* 'transport-created' arrives: handleTransportCreated, setupSendTransport / setupRecvTransport.
\* ok: device.createSendTransport / createRecvTransport of the library does not throw
handleTransportCreated(w, ok) ==
  /\ w \in wire /\ w.type = "create-transport"
  /\ wire' = wire \ {w}
  /\ LET dir == w.key
         i == FirstOf(cctv.pendingTransports, LAMBDA x : x.direction = dir)
     IN IF i = 0
        THEN UNCHANGED cctv
        ELSE LET k == cctv.pendingTransports[i].k
                 b == [cctv EXCEPT !.pendingTransports = RemoveAt(@, i)]
             IN cctv' = IF ok
                        THEN [SetTransport(b, dir, w.k) EXCEPT !.promises[k] = "resolved",
                                                               !.resolvedWith = MapSet(@, k, w.k),
                                                               !.timeouts = @ \ {k}]
                        ELSE Rejected(b, k, dir)
  /\ UNCHANGED serverVars

\* the library emits 'connect' on a transport, once, when it is first used:
\* pendingTransportConnects.set(transport.id, callback), 'connect-transport' is sent
OnTransportConnect(dir) ==
  /\ cctv.calls < MaxCalls
  /\ transportOf(cctv, dir) # 0
  /\ transportOf(cctv, dir) \notin cctv.connectEmitted
  /\ LET t == transportOf(cctv, dir)
         k == Len(cctv.promises) + 1
     IN /\ cctv' = [cctv EXCEPT !.promises = Append(@, "pending"),
                                !.calls = @ + 1,
                                !.directionOf = Append(@, dir),
                                !.connectEmitted = @ \cup {t},
                                !.pendingTransportConnects = MapSet(@, t, k)]
        /\ wire' = ClientSend(cctv, wire, Request("connect-transport", t, k))
  /\ UNCHANGED serverVars

\* 'transport-connected' arrives: handleTransportConnected
handleTransportConnected(w) ==
  /\ w \in wire /\ w.type = "connect-transport"
  /\ wire' = wire \ {w}
  /\ IF w.key \in DOMAIN cctv.pendingTransportConnects
     THEN LET k == cctv.pendingTransportConnects[w.key]
          IN cctv' = [cctv EXCEPT !.pendingTransportConnects = MapDel(@, {w.key}),
                                  !.promises[k] = "resolved"]
     ELSE UNCHANGED cctv
  /\ UNCHANGED serverVars

\* produce(track) -> the library emits 'produce' on the send transport:
\* pendingProduces.set(`${transport.id}-${kind}`, { callback, kind }), 'produce' is sent.
\* startStreaming produces each kind once on its transport.
produce(kind) ==
  /\ cctv.app = "device"
  /\ cctv.calls < MaxCalls
  /\ cctv.sendTransport # 0
  /\ <<cctv.sendTransport, kind>> \notin cctv.announced
  /\ LET k == Len(cctv.promises) + 1
         id == <<cctv.sendTransport, kind>>
     IN /\ cctv' = [cctv EXCEPT !.promises = Append(@, "pending"),
                                !.calls = @ + 1,
                                !.directionOf = Append(@, "send"),
                                !.announced = @ \cup {id},
                                !.pendingProduces = PendingSet(@, [id |-> id, kind |-> kind, k |-> k])]
        /\ wire' = ClientSend(cctv, wire, Request("produce", kind, k))
  /\ UNCHANGED serverVars

\* 'produced' arrives: handleProduced takes the first pending entry of that kind
handleProduced(w) ==
  /\ w \in wire /\ w.type = "produce"
  /\ wire' = wire \ {w}
  /\ LET i == FirstOf(cctv.pendingProduces, LAMBDA x : x.kind = w.key)
     IN IF i = 0
        THEN UNCHANGED cctv
        ELSE cctv' = [cctv EXCEPT !.pendingProduces = RemoveAt(@, i),
                                  !.promises[cctv.pendingProduces[i].k] = "resolved"]
  /\ UNCHANGED serverVars

\* the dashboard is told of producer p once on a socket ('streamer-list' after register,
\* or 'new-producer') and calls consume(p): pendingConsumes.set(p, { resolve, reject })
consume(p) ==
  /\ cctv.app = "master"
  /\ SocketOpen(cctv)
  /\ cctv.calls < MaxCalls
  /\ cctv.recvTransport # 0
  /\ p \notin cctv.announced
  /\ LET k == Len(cctv.promises) + 1
     IN /\ cctv' = [cctv EXCEPT !.promises = Append(@, "pending"),
                                !.calls = @ + 1,
                                !.directionOf = Append(@, "recv"),
                                !.announced = @ \cup {p},
                                !.pendingConsumes = MapSet(@, p, k)]
        /\ wire' = ClientSend(cctv, wire, Request("consume", p, k))
  /\ UNCHANGED serverVars

\* 'consumed' arrives: handleConsumed.  ok: recvTransport.consume of the library works
handleConsumed(w, ok) ==
  /\ w \in wire /\ w.type = "consume"
  /\ wire' = wire \ {w}
  /\ IF w.key \in DOMAIN cctv.pendingConsumes
     THEN LET k == cctv.pendingConsumes[w.key]
          IN cctv' = [cctv EXCEPT !.pendingConsumes = MapDel(@, {w.key}),
                                  !.promises[k] = IF ok THEN "resolved" ELSE "rejected"]
     ELSE UNCHANGED cctv
  /\ UNCHANGED serverVars

\* the server answers a request with 'error': the page's handler logs it
ServerError(w) ==
  /\ w \in wire /\ w.type # "register"
  /\ wire' = wire \ {w}
  /\ UNCHANGED cctv
  /\ UNCHANGED serverVars

NextClient ==
  \/ \E app \in Apps, lib \in BOOLEAN : Load(app, lib)
  \/ \E n \in 1..MaxSockets : onopen(n)
  \/ \E w \in wire : registered(w)
  \/ \E n \in 1..MaxSockets : onfail(n)
  \/ \E n \in 1..MaxSockets : onclose(n)
  \/ ReconnectTimer
  \/ RetryTimer
  \/ createSendTransport
  \/ createRecvTransport
  \/ \E k \in 1..MaxCalls : TransportTimeout(k)
  \/ \E w \in wire, ok \in BOOLEAN : handleTransportCreated(w, ok)
  \/ \E dir \in Directions : OnTransportConnect(dir)
  \/ \E w \in wire : handleTransportConnected(w)
  \/ \E kind \in Kinds : produce(kind)
  \/ \E w \in wire : handleProduced(w)
  \/ \E p \in ProducerIds : consume(p)
  \/ \E w \in wire, ok \in BOOLEAN : handleConsumed(w, ok)
  \/ \E w \in wire : ServerError(w)

SpecClient == Init /\ [][NextClient]_vars

\* ========================================================================
\* Claims
\* ========================================================================
Disconnected == (1..(nextClient - 1)) \ clients

IsRegisterStep(c) == msgCount'["register"] = msgCount["register"] + 1 /\ msgSeq'[c] = msgSeq[c] + 1
IsStopStep(c) == msgCount'["stop-streaming"] = msgCount["stop-streaming"] + 1
                 /\ msgSeq'[c] = msgSeq[c] + 1

Last(q) == q[Len(q)]
HasFrame(ob, type) == \E i \in 1..Len(ob) : ob[i].type = type

\* C1: a 'register' from an identity whose role is already set is answered with an error
\* and changes nothing: not the identity's role or name, not the StreamerRecord map, not
\* the ViewerSet, and nothing is broadcast.
C1_DuplicateRegisterRejected ==
  [][\A c \in Ids :
       (c \in clients /\ client[c].role # NoRole /\ IsRegisterStep(c))
         => /\ client' = client
            /\ streamers' = streamers
            /\ masters' = masters
            /\ outbox'[c] = Append(outbox[c], ErrorFrame(msgSeq'[c]))
            /\ \A v \in Ids \ {c} : outbox'[v] = outbox[v]]_vars

\* C2: when a streamer disconnects, one stop sequence is run for each of its producers that
\* is to be recorded (the video producers, when ffmpeg is there), and afterwards nothing
\* of the identity is left: no client, StreamerRecord or ViewerSet entry, no
\* RecordingSession of a producer it made, no transport, producer or consumer tagged
\* with it.
ProducedBy(c) == {p \in DOMAIN audience : audience[p].clientId = c}
C2_DisconnectStopsAndRemoves ==
  (lastDisconnect.id # 0 /\ lastDisconnect.streamer)
    => LET c == lastDisconnect.id
       IN /\ ffmpegAvailable => lastDisconnect.stops = lastDisconnect.video
          /\ c \notin clients /\ c \notin StreamerIds(streamers) /\ c \notin masters
          /\ \A p \in ProducedBy(c) : p \notin DOMAIN recordings
          /\ \A t \in DOMAIN transports : transports[t] # c
          /\ \A p \in DOMAIN producers : producers[p].clientId # c
          /\ \A n \in DOMAIN consumers : consumers[n].clientId # c

\* C3: for every producer id there is at no time more than one encoder process running,
\* however often startRecording is called for it.
LiveEncoders(p) == {i \in 1..Len(captures) :
                      captures[i].producerId = p /\ captures[i].ffmpeg \in Alive}
C3_OneEncoderPerProducer ==
  \A p \in ProducerIds : Cardinality(LiveEncoders(p)) <= 1

\* C4: cleanupClient is idempotent: in every state and for every identity, a second call
\* right after the first calls close() on nothing and leaves the registries and the engine
\* as the first call left them.
C4_CleanupIdempotent ==
  \A c \in Ids :
    LET m1 == cleanupClient(MS, c)
        again == cleanupCloses(m1, c)
    IN /\ cleanupClient(m1, c) = m1
       /\ again.p = {} /\ again.c = {} /\ again.t = {}

\* C4 witness: an identity that got a transport, stopped streaming (first cleanup) and
\* then disconnected (second cleanup)
C4_Witness ==
  \E c \in Ids :
    /\ lastDisconnect.id = c
    /\ \E i, j \in 1..Len(outbox[c]) :
         i < j /\ outbox[c][i].type = "transport-created" /\ outbox[c][j].type = "streaming-stopped"

\* C5: once an identity has disconnected, no transport, producer or consumer of the
\* registries is tagged with it.
C5_NoResourceOutlivesOwner ==
  \A c \in Disconnected :
    /\ \A t \in DOMAIN transports : transports[t] # c
    /\ \A p \in DOMAIN producers : producers[p].clientId # c
    /\ \A n \in DOMAIN consumers : consumers[n].clientId # c

\* C6: the replies to an identity come in the order its requests arrived.
C6_RepliesInArrivalOrder ==
  \A c \in Ids : \A i, j \in 1..Len(outbox[c]) :
    (i < j /\ outbox[c][i].re # 0 /\ outbox[c][j].re # 0) => outbox[c][i].re <= outbox[c][j].re

\* C7: a viewer that was sent 'streamer-left' for an identity is not sent 'new-producer'
\* naming that identity afterwards, unless 'streamer-joined' for it came in between.
C7_NoProducerAfterLeft ==
  \A v \in Ids : \A i, j \in 1..Len(outbox[v]) :
    (/\ i < j
     /\ outbox[v][i].type = "streamer-left"
     /\ outbox[v][j].type = "new-producer"
     /\ outbox[v][j].clientId = outbox[v][i].clientId)
      => \E m \in (i + 1)..(j - 1) :
           outbox[v][m].type = "streamer-joined" /\ outbox[v][m].clientId = outbox[v][i].clientId

\* C8: every producer id listed in a StreamerRecord is in the producer registry and is
\* owned there by that streamer.
C8_RecordProducersExist ==
  \A i \in 1..Len(streamers) : \A j \in 1..Len(streamers[i].producers) :
    LET p == streamers[i].producers[j]
    IN p \in DOMAIN producers /\ producers[p].clientId = streamers[i].id

\* C9: when a registered streamer sends 'stop-streaming', every connected viewer is sent
\* exactly one frame, 'streamer-left' for it, its role is reset while it stays connected,
\* its StreamerRecord is gone and it is sent 'streaming-stopped'; when it then registers as
\* streamer again, it gets a fresh StreamerRecord without producers, every connected viewer
\* is sent 'streamer-joined' and it is sent 'registered'.
Viewers == {v \in clients : client[v].role = "master"}
C9_StopThenRegisterAgain ==
  [][\A c \in Ids :
       /\ (c \in clients /\ client[c].role = "streamer" /\ IsStopStep(c))
            => /\ \A v \in Viewers :
                    outbox'[v] = Append(outbox[v],
                                   Frame("streamer-left", 0, c, client[c].deviceName, 0, ""))
               /\ c \in clients'
               /\ client'[c].role = NoRole
               /\ c \notin StreamerIds(streamers')
               /\ Last(outbox'[c]) = Frame("streaming-stopped", msgSeq'[c], 0, "", 0, "")
       /\ (/\ c \in clients /\ client[c].role = NoRole /\ HasFrame(outbox[c], "streaming-stopped")
           /\ IsRegisterStep(c) /\ client'[c].role = "streamer")
            => /\ c \in StreamerIds(streamers')
               /\ StreamersGet(streamers', c).producers = <<>>
               /\ \A v \in Viewers :
                    outbox'[v] = Append(outbox[v],
                                   Frame("streamer-joined", 0, c, client'[c].deviceName, 0, ""))
               /\ Last(outbox'[c]) =
                    Frame("registered", msgSeq'[c], 0, client'[c].deviceName, 0, "streamer")]_vars

\* C9 witness: a streamer stopped and registered again while a viewer watched
C9_Witness ==
  \E c \in clients, v \in Viewers :
    /\ \E i, j \in 1..Len(outbox[c]) :
         i < j /\ outbox[c][i].type = "streaming-stopped" /\ outbox[c][j].type = "registered"
    /\ \E i, j \in 1..Len(outbox[v]) :
         /\ i < j
         /\ outbox[v][i].type = "streamer-left" /\ outbox[v][i].clientId = c
         /\ outbox[v][j].type = "streamer-joined" /\ outbox[v][j].clientId = c

\* C10: for every producer created, each viewer that was registered and connected then
\* has been sent exactly one 'new-producer' for it, with the producer's id, its kind and
\* the identity that produced it.
NewProducerFrames(v, p) ==
  {i \in 1..Len(outbox[v]) : outbox[v][i].type = "new-producer" /\ outbox[v][i].producerId = p}
C10_OneNewProducerPerViewer ==
  \A p \in DOMAIN audience : \A v \in audience[p].viewers :
    /\ Cardinality(NewProducerFrames(v, p)) = 1
    /\ \A i \in NewProducerFrames(v, p) :
         outbox[v][i].kind = audience[p].kind /\ outbox[v][i].clientId = audience[p].clientId

\* C10 witness: a registered streamer produced video while another identity was a
\* registered viewer, and that viewer has its 'new-producer'
C10_Witness ==
  \E p \in DOMAIN audience : \E v \in audience[p].viewers :
    /\ v # audience[p].clientId
    /\ audience[p].kind = "video"
    /\ audience[p].clientId \in StreamerIds(streamers)
    /\ client[audience[p].clientId].role = "streamer"
    /\ NewProducerFrames(v, p) # {}

\* C11: the 'streamer-list' a viewer is sent when it registers has one entry for each
\* identity that is a registered streamer at that instant and for nobody else, in the
\* order the streamers registered, and each entry lists the producers the adapter holds
\* for that streamer.
C11_StreamerListSnapshot ==
  [][\A c \in Ids :
       (c \in clients /\ IsRegisterStep(c) /\ client'[c].role = "master")
         => \E i \in (Len(outbox[c]) + 1)..Len(outbox'[c]) :
              LET f == outbox'[c][i]
              IN /\ f.type = "streamer-list"
                 /\ f.re = msgSeq'[c]
                 /\ Len(f.streamers) = Len(regOrder')
                 /\ \A j \in 1..Len(f.streamers) :
                      /\ f.streamers[j].clientId = regOrder'[j]
                      /\ f.streamers[j].producers = ProducerList(producers', regOrder'[j])]_vars

\* C12: a 'pan-zoom' whose target is not a connected identity does nothing: no frame is
\* sent to anybody, the sender gets no 'error', and no registry changes.
IsPanZoomStep(c) == msgCount'["pan-zoom"] = msgCount["pan-zoom"] + 1 /\ msgSeq'[c] = msgSeq[c] + 1
C12_PanZoomToGoneIsNoOp ==
  [][\A c \in Ids :
       (c \in clients /\ IsPanZoomStep(c) /\ lastPanZoom'.target \notin clients)
         => /\ outbox' = outbox
            /\ UNCHANGED <<clients, client, streamers, masters>>
            /\ UNCHANGED <<transports, producers, consumers, recordings>>]_vars

\* C12 witness: a 'pan-zoom' was handled whose target had disconnected
C12_Witness ==
  /\ lastPanZoom.from # 0
  /\ ~lastPanZoom.open
  /\ lastPanZoom.target \in Disconnected

\* C13: a 'consume' that names a producer the registry does not have creates no consumer
\* and is answered with one 'error' frame, a not-found error, to the requester; nobody
\* else is sent anything, and the ViewerSet, the StreamerRecord map and the transports,
\* producers and consumers of the registries stay as they are.
IsConsumeStep(c) == msgCount'["consume"] = msgCount["consume"] + 1 /\ msgSeq'[c] = msgSeq[c] + 1
NotFound == {"Transport not found", "Producer not found"}
C13_ConsumeMissingProducer ==
  [][\A c \in Ids :
       (c \in clients /\ IsConsumeStep(c) /\ lastConsume'.producerId \notin DOMAIN producers)
         => /\ Len(outbox'[c]) = Len(outbox[c]) + 1
            /\ outbox'[c] = Append(outbox[c], Last(outbox'[c]))
            /\ Last(outbox'[c]).type = "error"
            /\ Last(outbox'[c]).re = msgSeq'[c]
            /\ Last(outbox'[c]).message \in NotFound
            /\ \A v \in Ids \ {c} : outbox'[v] = outbox[v]
            /\ UNCHANGED <<tasks, clients, client, streamers, masters>>
            /\ UNCHANGED <<transports, producers, consumers, engine>>]_vars

\* C13 witness: a viewer asked for a producer that had existed and was destroyed when its
\* owner disconnected, and was told that the producer is not found
C13_Witness ==
  \E c \in clients :
    /\ lastConsume.from = c
    /\ lastConsume.owner # 0 /\ lastConsume.owner # c /\ lastConsume.ownerGone
    /\ Len(outbox[c]) > 0
    /\ Last(outbox[c]).type = "error" /\ Last(outbox[c]).message = "Producer not found"

\* C14: without ffmpeg at startup nothing is ever recorded: startRecording builds no
\* capture, starts no process, arms no timer and stores no RecordingSession; the status
\* query says "disabled" and lists no active recording whatever the state of the
\* recordings directory; and a video 'produce' of a connected identity is answered with
\* 'produced' as soon as the producer exists.
RecorderPcs == {"createPlainTransport", "plainConsume", "plainConnect", "sleep", "resume"}
HasProduced(c, p) ==
  \E i \in 1..Len(outbox[c]) : outbox[c][i].type = "produced" /\ outbox[c][i].producerId = p
C14_RecorderDisabled ==
  ~ffmpegAvailable
    => /\ recordings = EmptyMap /\ captures = <<>> /\ timers = {} /\ stopSeqs = 0
       /\ \A k \in tasks : k.pc \notin RecorderPcs
       /\ nextRtpPort = FirstRtpPort
       /\ \A dir \in BOOLEAN, fsOk \in BOOLEAN :
            RecordingsReply(dir, fsOk) = [enabled |-> FALSE, active |-> <<>>]
       /\ \A p \in DOMAIN audience :
            (audience[p].kind = "video" /\ audience[p].clientId \in clients)
              => HasProduced(audience[p].clientId, p)

\* C14 witness: without ffmpeg, a video producer was made and confirmed, and
\* startRecording was called once more for it
C14_Witness ==
  /\ ~ffmpegAvailable
  /\ directStarts > 0
  /\ \E p \in DOMAIN audience :
       /\ audience[p].kind = "video"
       /\ audience[p].clientId \in clients
       /\ HasProduced(audience[p].clientId, p)

\* C15: whenever handling a frame of identity A fails, A and only A is sent one 'error'
\* frame that answers the frame: A stays connected, nobody else is sent anything, no
\* registry and no other identity changes.  A malformed frame and a request the engine
\* rejects are such failures.  No frame that is not a reply is an 'error'.
IsMalformedStep(c) == msgCount'["malformed"] = msgCount["malformed"] + 1 /\ msgSeq'[c] = msgSeq[c] + 1
EnginePcs == {"produce", "consume", "connect", "resume"}
C15_ErrorsStayWithSender ==
  [][\A a \in Ids :
       /\ (a \in clients /\ Len(outbox'[a]) > Len(outbox[a]) /\ Last(outbox'[a]).type = "error")
            => /\ outbox'[a] = Append(outbox[a], Last(outbox'[a]))
               /\ Last(outbox'[a]).re # 0
               /\ \A v \in Ids \ {a} : outbox'[v] = outbox[v]
               /\ UNCHANGED <<clients, client, streamers, masters>>
               /\ UNCHANGED <<transports, producers, consumers, engine, recordings, captures, timers>>
       /\ (a \in clients /\ IsMalformedStep(a))
            => outbox'[a] = Append(outbox[a], Error(msgSeq'[a], "malformed frame"))
       /\ \A k \in tasks \ tasks' :
            (k.client = a /\ a \in clients /\ k.pc \in EnginePcs /\ ~k.ok)
              => outbox'[a] = Append(outbox[a], Error(k.re, EngineRejects))
       /\ \A i \in 1..Len(outbox'[a]) : outbox'[a][i].type = "error" => outbox'[a][i].re # 0]_vars

\* C15 witness: with a viewer registered, another identity sent a malformed frame and a
\* request the engine rejected, and has the two 'error' frames
C15_Witness ==
  \E a \in clients, v \in Viewers :
    /\ a # v
    /\ \E i, j \in 1..Len(outbox[a]) :
         /\ outbox[a][i].type = "error" /\ outbox[a][i].message = "malformed frame"
         /\ outbox[a][j].type = "error" /\ outbox[a][j].message = EngineRejects

\* C19: when a video producer that has a RecordingSession leaves the producer registry,
\* whatever closed it, the stop sequence of its session is run in the same step and the
\* session is removed.
C19_ProducerCloseStopsRecording ==
  [][\A p \in DOMAIN recordings :
       (p \in DOMAIN producers /\ p \notin DOMAIN producers')
         => (p \notin DOMAIN recordings' /\ stopSeqs' > stopSeqs)]_vars

\* C20: once the owner of a producer has disconnected, its handleDisconnect having found
\* the producer in the registry, and no startRecording for the producer and no stop timer
\* of its captures is under way any more, nothing of its recording is left: no
\* RecordingSession, no encoder process alive and no capture transport open.
C20_NothingLeftAfterOwnerLeft ==
  \A i \in 1..Len(captures) :
    LET p == captures[i].producerId
    IN (/\ p \in DOMAIN audience /\ audience[p].clientId \in Disconnected
        /\ lastDisconnect.id = audience[p].clientId /\ lastDisconnect.producers > 0
        /\ \A k \in tasks : ~(k.pc \in RecorderPcs /\ k.producerId = p)
        /\ \A tm \in timers : tm.cap # i)
         => /\ p \notin DOMAIN recordings
            /\ captures[i].ffmpeg \notin Alive
            /\ captures[i].transport = "closed"


\* ---- C16 -----------------------------------------------------------------
\* C16: when the page's connection to the server closes, every pending operation it
\* holds is cancelled: after the close no pending table has an entry, and every
\* continuation that was stored has been rejected.
C16_DisconnectCancelsPending ==
  [][(cctv.connected /\ ~cctv'.connected) =>
       /\ Stored(cctv') = {}
       /\ \A k \in Stored(cctv) : cctv'.promises[k] = "rejected"]_vars

\* ---- C17 -----------------------------------------------------------------
\* C17: there is at most one pending operation per (identity, discriminator), and a
\* pending operation is never overwritten: a stored continuation leaves its table only
\* settled, and no two pending transport creations have the same direction.
OnePerDirection(b) ==
  \A i, j \in 1..Len(b.pendingTransports) :
    b.pendingTransports[i].direction = b.pendingTransports[j].direction => i = j

C17_OnePendingNeverOverwritten ==
  [][/\ \A k \in Stored(cctv) : k \in Stored(cctv') \/ cctv'.promises[k] # "pending"
     /\ OnePerDirection(cctv')]_vars

\* ---- C18 -----------------------------------------------------------------
\* C18: every pending operation is destroyed by a fixed timeout if nothing else
\* destroys it first: while the socket is open and the server has nothing left to
\* answer, whatever is stored in a pending table has its timer armed.
C18_EveryPendingHasTimeout ==
  (cctv.connected /\ wire = {}) => \A k \in Stored(cctv) : k \in cctv.timeouts


\* ---- C21 -----------------------------------------------------------------
\* C21: stopRecording shuts every session down in this order: the capture consumer is
\* closed first, in the call itself; after the flush delay the encoder is told to stop;
\* then the capture transport is closed; then the capture-description file is deleted.
StopOrder == <<"consumer.close", "ffmpeg.stop", "plainTransport.close", "unlinkSync">>
FlushPending(i) == [cap |-> i, phase |-> "flush"] \in timers

C21_StopOrder ==
  \A i \in 1..Len(captures) :
    LET log == captures[i].stopLog
    IN /\ log \in {<<>>, SubSeq(StopOrder, 1, 1), StopOrder}
       /\ FlushPending(i) <=> log = SubSeq(StopOrder, 1, 1)
       /\ log # <<>> => captures[i].consumer = "closed"
       /\ FlushPending(i) => captures[i].ffmpeg \in {"running", "exited"} /\ captures[i].transport = "open"
       /\ log = StopOrder => captures[i].transport = "closed" /\ ~captures[i].sdp
       /\ captures[i].ffmpeg \in {"quitting", "interrupted"} => log = StopOrder

\* a session that was recording has been stopped and its whole sequence has run
C21_Witness ==
  \E i \in 1..Len(captures) :
    /\ captures[i].stopLog = StopOrder
    /\ captures[i].ffmpeg = "quitting"
    /\ captures[i].producerId \notin DOMAIN recordings

\* ---- C22 -----------------------------------------------------------------
\* C22: an encoder that has been told to stop, by 'q' or by the SIGINT fallback, and has
\* not exited is killed when the forced-termination timeout is over: as long as it is
\* alive its force-kill timer is armed, and the timer leaves no such encoder alive.
C22_StoppedEncoderIsKilled ==
  \A i \in 1..Len(captures) :
    captures[i].ffmpeg \in {"quitting", "interrupted"} => [cap |-> i, phase |-> "kill"] \in timers


\* ---- C23 -----------------------------------------------------------------
\* C23: when the encoder of an active session exits on its own, the session is Stopped:
\* it is no longer in the recordings map nor in what getActiveRecordings reports, and the
\* producer registry, the streamers map and the viewers' consumers are as they were.
C23_EncoderCrashStopsSession ==
  [][\A p \in DOMAIN recordings :
       (captures[recordings[p]].ffmpeg = "running" /\ captures'[recordings[p]].ffmpeg = "exited")
         => /\ p \notin DOMAIN recordings'
            /\ \A j \in 1..Len(getActiveRecordings)' : getActiveRecordings'[j] # p
            /\ producers' = producers
            /\ streamers' = streamers
            /\ consumers' = consumers]_vars


\* ---- C24 -----------------------------------------------------------------
\* C24: a recording failure is never surfaced on the signaling channel.  In every step of
\* a produce handler whose engine call has succeeded: nobody is sent an `error` frame; the
\* step of the engine's answer puts the producer in the registry and sends `new-producer`
\* to every connected viewer; the steps of startRecording leave the producer registry and
\* the streamers map alone; and when the handler ends, recording or not, a streamer that
\* is still connected has got `produced` for its request.
NewFrames(v) == SubSeq(outbox'[v], Len(outbox[v]) + 1, Len(outbox'[v]))
StillRunning(k) == \E j \in tasks' : j.type = k.type /\ j.client = k.client /\ j.re = k.re

C24_RecordingFailureIsolated ==
  [][\A k \in tasks :
       (k.type = "produce" /\ k \notin tasks' /\ (k.pc \in RecorderPcs \/ k.ok))
         => LET c == k.client
                p == IF k.pc = "produce" THEN Cardinality(DOMAIN engine.p) + 1 ELSE k.producerId
            IN /\ \A v \in Ids : \A i \in 1..Len(NewFrames(v)) : NewFrames(v)[i].type # "error"
               /\ k.pc = "produce"
                    => /\ p \in DOMAIN producers'
                       /\ c \in StreamerIds(streamers) => Last(StreamersGet(streamers', c).producers) = p
                       /\ \A v \in masters \cap clients :
                            \E i \in 1..Len(NewFrames(v)) :
                              NewFrames(v)[i].type = "new-producer" /\ NewFrames(v)[i].producerId = p
               /\ k.pc \in RecorderPcs => producers' = producers /\ streamers' = streamers
               /\ (~StillRunning(k) /\ c \in clients)
                    => /\ Len(NewFrames(c)) > 0
                       /\ Last(outbox'[c]).type = "produced"
                       /\ Last(outbox'[c]).re = k.re
                       /\ Last(outbox'[c]).producerId = p]_vars

\* the capture negotiation of a connected streamer's producer has failed, startRecording
\* has returned, and the streamer has its `produced` and no `error`
C24_Witness ==
  \E c \in clients, i \in 1..Len(captures) :
    /\ captures[i].consumer = "none"
    /\ \A k \in tasks : k.pc \notin RecorderPcs
    /\ audience[captures[i].producerId].clientId = c
    /\ \E j \in 1..Len(outbox[c]) :
         outbox[c][j].type = "produced" /\ outbox[c][j].producerId = captures[i].producerId
    /\ ~HasFrame(outbox[c], "error")


\* ---- C25 -----------------------------------------------------------------
\* C25: a `pan-zoom-command` frame is sent only when the sender of `pan-zoom` is a
\* registered viewer and the target is connected and registered as streamer; it goes to
\* the target only and carries the zoom, panX and panY of the request.
IsCommand(f) == f.type = "pan-zoom-command"

C25_PanZoomGuarded ==
  [][\A c \in Ids :
       IsPanZoomStep(c)
         => \A v \in Ids : \A i \in 1..Len(NewFrames(v)) :
              IsCommand(NewFrames(v)[i])
                => /\ v = lastPanZoom'.target
                   /\ client[c].role = "master"
                   /\ client[v].role = "streamer"
                   /\ [zoom |-> NewFrames(v)[i].zoom, panX |-> NewFrames(v)[i].panX,
                       panY |-> NewFrames(v)[i].panY] = lastPanZoom'.payload]_vars


\* ---- C26 -----------------------------------------------------------------
\* C26: `connect-transport` and `produce` ask the engine for something only on a
\* transport the sender owns, and `resume-consumer` only on a consumer the sender owns.
Requested == tasks' \ tasks

C26_OnlyOwnResources ==
  [][\A k \in Requested :
       /\ (k.type = "connect-transport" /\ k.pc = "connect") => transports[k.transportId] = k.client
       /\ (k.type = "produce" /\ k.pc = "produce") => transports[k.transportId] = k.client
       /\ (k.type = "resume-consumer" /\ k.pc = "resume") => consumers[k.producerId].clientId = k.client]_vars

\* ---- C27 -----------------------------------------------------------------
\* C27: `create-transport` of an identity whose role is unset asks the engine for
\* nothing: no transport is created for it and no `transport-created` follows.
C27_CreateTransportNeedsRole ==
  [][\A k \in Requested :
       (k.type = "create-transport" /\ k.pc = "createWebRtcTransport")
         => client[k.client].role # NoRole]_vars

\* ---- C28 -----------------------------------------------------------------
\* C28: `stop-streaming` of an identity that is not registered as streamer closes none of
\* its media resources, leaves its role as it is and sends nothing to anybody else.
C28_StopNeedsStreamer ==
  [][\A c \in Ids :
       (IsStopStep(c) /\ client[c].role # "streamer")
         => /\ client'[c].role = client[c].role
            /\ <<transports, producers, consumers, engine>>' = <<transports, producers, consumers, engine>>
            /\ \A v \in Ids \ {c} : outbox'[v] = outbox[v]]_vars

\* ---- C29 -----------------------------------------------------------------
\* C29: in every state the set of viewers is exactly the set of connected identities
\* whose role is master.
C29_ViewerSetExact ==
  masters = {c \in clients : client[c].role = "master"}

\* ---- C30 -----------------------------------------------------------------
\* C30: in every state the identities that have a StreamerRecord are exactly the
\* connected identities whose role is streamer, and none of them is a viewer.
C30_StreamerRecordExact ==
  /\ StreamerIds(streamers) = {c \in clients : client[c].role = "streamer"}
  /\ StreamerIds(streamers) \cap masters = {}


\* ---- C31 -----------------------------------------------------------------
\* C31: a connection that is accepted gets an identity no connection had before it, so one
\* distinct from every other connected identity; the first frame written to it is `welcome`
\* with that identity and the media capabilities of the router, and it is written in the
\* accepting step, before any inbound frame of the connection has arrived.
Accepted == clients' \ clients

C31_WelcomeFirstAndFresh ==
  [][/\ \A c \in Accepted :
          /\ c \notin DOMAIN client
          /\ msgSeq[c] = 0 /\ msgSeq'[c] = 0
          /\ outbox[c] = <<>>
          /\ outbox'[c] = <<Welcome(c)>>
     /\ \A c \in Ids :
          msgSeq'[c] > msgSeq[c]
            => /\ outbox[c] # <<>>
               /\ outbox[c][1].type = "welcome"
               /\ outbox[c][1].clientId = c
               /\ outbox[c][1].rtpCapabilities = RouterRtpCapabilities]_vars

C31_Witness ==
  /\ clients = {1, 2}
  /\ msgSeq[2] > 0
  /\ Len(outbox[2]) > 1
  /\ outbox[1][1] = Welcome(1)
  /\ outbox[2][1] = Welcome(2)


\* ---- C32 -----------------------------------------------------------------
\* C32 as stated: a close for an identity that has no transport (unregistered, registered
\* without transports, streaming stopped) writes no frame to anybody.
Closes(c) == c \in clients /\ c \notin clients'
TransportsOf(c) == {t \in DOMAIN transports : transports[t] = c}

LeftFrames(v, c) == {i \in 1..Len(NewFrames(v)) :
                      NewFrames(v)[i].type = "streamer-left" /\ NewFrames(v)[i].clientId = c}
Bare(c) == /\ TransportsOf(c) = {}
           /\ getProducersByClient(producers, c) = {}
           /\ \A n \in DOMAIN consumers : consumers[n].clientId # c

ResumeAnswered(i) == \E k \in tasks \ tasks' : k.pc = "resume" /\ k.cap = i /\ k.ok
Created(i) == i > Len(captures) \/ captures[i].consumer = "none"

C33_PausedUntilEncoderReady ==
  [][/\ \A i \in 1..Len(captures') :
          /\ (Created(i) /\ captures'[i].consumer # "none")
                => captures'[i].consumer = "paused" /\ captures'[i].ffmpeg = "none"
          /\ (captures'[i].consumer = "flowing" /\ (Created(i) \/ captures[i].consumer # "flowing"))
                => /\ ResumeAnswered(i)
                   /\ captures[i].consumer = "paused"
                   /\ captures[i].ffmpeg # "none"
     /\ \A p \in DOMAIN recordings' :
          (p \notin DOMAIN recordings \/ recordings'[p] # recordings[p])
            => /\ ResumeAnswered(recordings'[p])
               /\ captures[recordings'[p]].producerId = p
               /\ captures[recordings'[p]].ffmpeg # "none"]_vars

\* a session that is stored, with its consumer flowing into a running encoder
C33_Witness ==
  \E p \in DOMAIN recordings :
    /\ captures[recordings[p]].consumer = "flowing"
    /\ captures[recordings[p]].ffmpeg = "running"
    /\ \A k \in tasks : k.cap # recordings[p]


\* ---- C37 -----------------------------------------------------------------
\* C37: the stop sequence runs at most once per session: every run of it belongs to a
\* session of its own, stopRecording for a producer without an entry returns the state as
\* it is (no timer, no signal), and after stopRecording for a producer a second one for
\* the same producer finds no entry.
StopRuns(i) == Cardinality({j \in 1..Len(captures[i].stopLog) : captures[i].stopLog[j] = "consumer.close"})
Stopped == {i \in 1..Len(captures) : StopRuns(i) > 0}

C37_StopAtMostOnce ==
  /\ \A i \in 1..Len(captures) : StopRuns(i) <= 1
  /\ stopSeqs = Cardinality(Stopped)
  /\ \A p \in ProducerIds :
       LET r == stopRecording(REC, p)
       IN /\ p \notin DOMAIN r.recordings
          /\ stopRecording(r, p) = r
          /\ p \notin DOMAIN recordings => r = REC
          /\ stopRecordingAll(r, SetToSeq(DOMAIN r.recordings \cup {p})).stopSeqs
               = r.stopSeqs + Cardinality(DOMAIN r.recordings)

\* stop-streaming stopped the session and the close of the same identity found nothing to stop
C37_Witness ==
  /\ msgCount["stop-streaming"] = 1
  /\ lastDisconnect.id # 0
  /\ lastDisconnect.stops = 0
  /\ lastDisconnect.id \notin clients
  /\ stopSeqs = 1
  /\ \E i \in 1..Len(captures) :
       /\ StopRuns(i) = 1
       /\ audience[captures[i].producerId].clientId = lastDisconnect.id


\* ---- C35 -----------------------------------------------------------------
\* C35: a step that cleans up identity a (its close, or its `stop-streaming`) leaves every
\* transport and producer of another identity registered and open, leaves the other
\* identities' client entries, roles, StreamerRecords and viewer membership as they are,
\* and removes no consumer but a's own and those that consume a producer of a.
CleansUp(a) == Closes(a) \/ IsStopStep(a)
RecordOf(ss, b) == SelectSeq(ss, LAMBDA r : r.id = b)
ConsumesFrom(n, a) == /\ consumers[n].producerId \in DOMAIN producers
                      /\ producers[consumers[n].producerId].clientId = a

C35_CleanupTouchesOwnOnly ==
  [][\A a \in Ids :
       CleansUp(a)
         => /\ \A t \in DOMAIN transports :
                 transports[t] # a
                   => /\ t \in DOMAIN transports' /\ transports'[t] = transports[t]
                      /\ t \in engine'.closedT <=> t \in engine.closedT
            /\ \A p \in DOMAIN producers :
                 producers[p].clientId # a
                   => /\ p \in DOMAIN producers' /\ producers'[p] = producers[p]
                      /\ p \in engine'.closedP <=> p \in engine.closedP
            /\ \A b \in Ids \ {a} :
                 /\ b \in clients' <=> b \in clients
                 /\ b \in DOMAIN client => client'[b] = client[b]
                 /\ b \in masters' <=> b \in masters
                 /\ RecordOf(streamers', b) = RecordOf(streamers, b)
            /\ \A n \in DOMAIN consumers \ DOMAIN consumers' :
                 consumers[n].clientId = a \/ ConsumesFrom(n, a)]_vars


\* ---- C38 -----------------------------------------------------------------
\* C38: in every state each entry of the consumer registry names a producer that is in the
\* producer registry and lives on a transport that is in the transport registry.
C38_ConsumersReferToLiveResources ==
  \A n \in DOMAIN consumers :
    /\ consumers[n].producerId \in DOMAIN producers
    /\ engine.c[n].t \in DOMAIN transports


\* ---- C39 -----------------------------------------------------------------
\* C39: the dashboard has at most one open signaling connection at any time, and is
\* registered with the server under at most one identity at a time.
C39_OneConnection ==
  cctv.app = "master"
    => /\ Cardinality(OpenSockets(cctv)) <= 1
       /\ Cardinality(cctv.registered) <= 1


\* ---- C36 -----------------------------------------------------------------
\* C36: calls of createSendTransport / createRecvTransport made while the transport is not
\* there share one request: at most one creation of a direction is pending, `create-transport`
\* is sent only when none is, and when a creation resolves every waiting caller of that
\* direction waits for it and the stored transport is the one it resolved with; when a
\* creation is rejected (by the setup or the 10 s timer) its pending entry is gone and the
\* stored promise is cleared.
Waited(b) == {b.awaits[i] : i \in 1..Len(b.awaits)}
PendingCreations(b, dir) == {k \in Waited(b) : b.directionOf[k] = dir /\ b.promises[k] = "pending"}
SendsCreate(dir) == \E w \in wire' \ wire : w.type = "create-transport" /\ w.key = dir

C36_SingleFlight ==
  [][\A dir \in Directions :
       /\ Cardinality(PendingCreations(cctv', dir)) <= 1
       /\ SendsCreate(dir) => PendingCreations(cctv, dir) = {}
       /\ \A k \in PendingCreations(cctv, dir) :
            /\ cctv'.promises[k] = "resolved"
                 => /\ transportOf(cctv', dir) = cctv'.resolvedWith[k]
                    /\ PendingCreations(cctv, dir) = {k}
            /\ cctv'.promises[k] = "rejected"
                 => /\ \A i \in 1..Len(cctv'.pendingTransports) : cctv'.pendingTransports[i].k # k
                    /\ promiseOf(cctv', dir) = 0]_vars


\* ---- C34 -----------------------------------------------------------------
\* C34: the port pair (p, p + 1) a recording start allocates lies in the port range and
\* shares no port with the pair of any session that is stored or being set up.
PortPair(p) == {p, p + 1}
Allocated == {k \in tasks' \ tasks : k.pc = "createPlainTransport"}
ActivePorts ==
  UNION ({PortPair(captures[recordings[p]].rtpPort) : p \in DOMAIN recordings}
           \cup {PortPair(k.port) : k \in {j \in tasks : j.port # 0}})

C34_PortPairsDistinct ==
  [][\A k \in Allocated :
       /\ k.port \in FirstRtpPort..LastRtpPort
       /\ PortPair(k.port) \cap ActivePorts = {}]_vars


\* ---- C40 -----------------------------------------------------------------
\* C40: with authentication on, an upgrade request that carries no Basic credentials, or
\* credentials other than the configured user and password, gets no identity: no client
\* entry, no frame, no role registry entry, no inbound frame counted.
RightCredentials(cfg) == cfg.username \o <<":">> \o cfg.password
Presents(h) == lastUpgrade'.n = lastUpgrade.n + 1 /\ lastUpgrade'.header = h

C40_NoIdentityWithoutCredentials ==
  [][\A h \in Headers :
       (Presents(h) /\ ~(h.scheme = "Basic" /\ h.credentials = RightCredentials(AuthOn)))
         => /\ clients' = clients /\ client' = client /\ nextClient' = nextClient
            /\ outbox' = outbox
            /\ masters' = masters /\ streamers' = streamers
            /\ msgSeq' = msgSeq /\ tasks' = tasks]_vars

====
